---------------------------- MODULE Spec2Model ----------------------------
(***************************************************************************)
(* A model of the Social Production ledger: transactions, Merkle roots,    *)
(* blocks, the chain and its longest-chain rule (sp-transaction,           *)
(* sp-merkle, sp-blockchain) and the node engine that drives them          *)
(* (sp-node).                                                              *)
(*                                                                         *)
(* SHA-256 is modelled as a collision-free function: a digest is the tuple *)
(* of the values that were fed to the hasher, in the order they were fed.  *)
(***************************************************************************)
EXTENDS Naturals, Sequences, FiniteSets, TLC

VARIABLES a, aOnlyAppends, last, nodes, net, out, attested, merkle, mgr,
          peering, host

vars ==
    <<a, aOnlyAppends, last, nodes, net, out, attested, merkle, mgr, peering,
      host>>

-----------------------------------------------------------------------------
(* Bounds of the model and constants of the program.                       *)

\* Longest chain the chain-level specifications build (genesis included).
MaxLen == 3

MIN_VERIFICATIONS == 3

\* SpecChain records verifications until one block of the chain can have been
\* finalised: as many, over the whole chain, as finalising one block takes.
MaxVerifs == MIN_VERIFICATIONS

\* Outcomes of Uuid::new_v4() and of Utc::now().timestamp().
Uuids == {"u1", "u2"}
Times == {1, 2}

\* Peer identifiers handed to verify_block.
Peers == {"p1", "p2", "p3", "p4"}
ChainPeers == {"p1", "p2", "p3"}

ZeroHash == << >>

-----------------------------------------------------------------------------
(* sp-transaction                                                          *)

\* Transaction::new: the id is random and the timestamp is the wall clock.
Transaction_new(kind, payload, uuid, now) ==
    [id |-> uuid, kind |-> kind, payload |-> payload, timestamp |-> now,
     signature |-> << >>]

\* Transaction::hash: SHA-256 of the bincode serialisation of every field.
tx_hash(tx) ==
    <<"tx", tx.id, tx.kind, tx.payload, tx.timestamp, tx.signature>>

-----------------------------------------------------------------------------
(* sp-merkle                                                               *)

hash_pair(left, right) == <<"pair", left, right>>

\* The padding step of MerkleTree::new: an odd level repeats its last hash.
Padded(level) ==
    IF Len(level) % 2 # 0 THEN Append(level, level[Len(level)]) ELSE level

ParentLevel(level) ==
    LET p == Padded(level)
    IN  [i \in 1..(Len(p) \div 2) |-> hash_pair(p[2 * i - 1], p[2 * i])]

RECURSIVE BuildLevels(_)
BuildLevels(leaves) ==
    IF Len(leaves) > 1
    THEN <<leaves>> \o BuildLevels(ParentLevel(leaves))
    ELSE <<leaves>>

\* MerkleTree::new: "Empty" for no transactions, else every level of the tree.
MerkleTree_new(transactions) ==
    IF transactions = << >>
    THEN [ok |-> FALSE, err |-> "Empty", levels |-> << >>]
    ELSE [ok |-> TRUE, err |-> "",
          levels |-> BuildLevels([i \in 1..Len(transactions) |->
                                     tx_hash(transactions[i])])]

root_hash(tree) == tree.levels[Len(tree.levels)][1]

\* Index of the first transaction whose id is tx_id, counted from 1; 0 when
\* there is none (iter().position in MerkleTree::proof).
RECURSIVE Position(_, _, _)
Position(transactions, tx_id, i) ==
    IF i > Len(transactions) THEN 0
    ELSE IF transactions[i].id = tx_id THEN i
    ELSE Position(transactions, tx_id, i + 1)

\* The loop of MerkleTree::proof over the levels below the root, from level l
\* on; `index` counts from 0 as in the code.
RECURSIVE ProofPath(_, _, _)
ProofPath(levels, l, index) ==
    IF l > Len(levels) - 1 THEN << >>
    ELSE LET padded == Padded(levels[l])
             sibling_index == IF index % 2 = 0 THEN index + 1 ELSE index - 1
             side == IF index % 2 = 0 THEN "Right" ELSE "Left"
         IN  <<[hash |-> padded[sibling_index + 1], side |-> side]>>
             \o ProofPath(levels, l + 1, index \div 2)

\* MerkleTree::proof.
proof(tree, transactions, tx_id) ==
    LET leaf_index == Position(transactions, tx_id, 1)
    IN  IF leaf_index = 0
        THEN [ok |-> FALSE, err |-> "NotFound"]
        ELSE [ok |-> TRUE, err |-> "",
              leaf_hash |-> tree.levels[1][leaf_index],
              path |-> ProofPath(tree.levels, 1, leaf_index - 1)]

\* The loop of MerkleProof::verify from step i on: SHA-256 of the sibling
\* and the running hash, in the order the side says.
RECURSIVE Climb(_, _, _)
Climb(current, path, i) ==
    IF i > Len(path) THEN current
    ELSE Climb(IF path[i].side = "Left"
               THEN hash_pair(path[i].hash, current)
               ELSE hash_pair(current, path[i].hash),
               path, i + 1)

\* A variant of MerkleProof::verify that puts every sibling on the right.
RECURSIVE ClimbRight(_, _, _)
ClimbRight(current, path, i) ==
    IF i > Len(path) THEN current
    ELSE ClimbRight(hash_pair(current, path[i].hash), path, i + 1)

verify_ignoring_side(prf, expected_root) ==
    ClimbRight(prf.leaf_hash, prf.path, 1) = expected_root

\* MerkleProof::verify.
verify(prf, expected_root) == Climb(prf.leaf_hash, prf.path, 1) = expected_root

-----------------------------------------------------------------------------
(* sp-blockchain: Block                                                    *)

\* A faulty variant of hash: the verification list is hashed too.
hash_with_verifications(b) ==
    <<"block", b.index, b.prev_hash, b.merkle_root, b.timestamp, b.nonce,
      b.verifications>>

\* Block::hash: the header fields, without transactions and verifications.
hash(b) ==
    <<"block", b.index, b.prev_hash, b.merkle_root, b.timestamp, b.nonce>>

\* A variant of is_finalised that is content with one verification less.
is_finalised_early(b) == Len(b.verifications) >= MIN_VERIFICATIONS - 1

is_finalised(b) == Len(b.verifications) >= MIN_VERIFICATIONS

Contains(seq, x) == \E i \in 1..Len(seq) : seq[i] = x

\* A faulty variant of add_verification: the duplicate check is missing.
add_verification_no_dedup(b, peer_id) ==
    LET nb == [b EXCEPT !.verifications = Append(@, peer_id)]
    IN  [block |-> nb, ret |-> is_finalised(nb)]

\* A faulty variant of add_verification: reports a transition instead of the status.
add_verification_edge(b, peer_id) ==
    LET nb == IF ~Contains(b.verifications, peer_id)
              THEN [b EXCEPT !.verifications = Append(@, peer_id)]
              ELSE b
    IN  [block |-> nb, ret |-> is_finalised(nb) /\ ~is_finalised(b)]

\* Block::add_verification: the block afterwards and the value returned.
add_verification(b, peer_id) ==
    LET nb == IF ~Contains(b.verifications, peer_id)
              THEN [b EXCEPT !.verifications = Append(@, peer_id)]
              ELSE b
    IN  [block |-> nb, ret |-> is_finalised(nb)]

\* A variant of Block::new that accepts an empty transaction list.
Block_new_unchecked(index, prev_hash, transactions, now) ==
    [ok |-> TRUE, err |-> "",
     block |-> [index |-> index,
                prev_hash |-> prev_hash,
                merkle_root |-> IF transactions = << >> THEN ZeroHash
                                ELSE root_hash(MerkleTree_new(transactions)),
                transactions |-> transactions,
                timestamp |-> now,
                nonce |-> 0,
                verifications |-> << >>]]

\* Block::new; `now` is what Utc::now().timestamp() returns.
Block_new(index, prev_hash, transactions, now) ==
    IF transactions = << >>
    THEN [ok |-> FALSE, err |-> "NoTransactions"]
    ELSE [ok |-> TRUE, err |-> "",
          block |-> [index |-> index,
                     prev_hash |-> prev_hash,
                     merkle_root |-> root_hash(MerkleTree_new(transactions)),
                     transactions |-> transactions,
                     timestamp |-> now,
                     nonce |-> 0,
                     verifications |-> << >>]]

\* Block::genesis; the placeholder comes from Transaction::new, so `uuid` and
\* `now` are what Uuid::new_v4() and the clock return in that call.
genesis(uuid, now) ==
    LET placeholder == Transaction_new("NodeAdded", "genesis", uuid, now)
    IN  [index |-> 0,
         prev_hash |-> ZeroHash,
         merkle_root |-> root_hash(MerkleTree_new(<<placeholder>>)),
         transactions |-> <<placeholder>>,
         timestamp |-> 0,
         nonce |-> 0,
         verifications |-> << >>]

-----------------------------------------------------------------------------
(* sp-blockchain: Blockchain (the value is its `blocks` vector)            *)

Blockchain_new(uuid, now) == <<genesis(uuid, now)>>

len(chain) == Len(chain)

tip(chain) == chain[Len(chain)]

\* A faulty variant of add_block: links to the tip's predecessor hash.
add_block_stale_prev(chain, transactions, now) ==
    LET r == Block_new(tip(chain).index + 1, tip(chain).prev_hash,
                       transactions, now)
    IN  IF r.ok
        THEN [ok |-> TRUE, err |-> "", chain |-> Append(chain, r.block)]
        ELSE [ok |-> FALSE, err |-> r.err, chain |-> chain]

\* A variant of add_block that keeps only the first transaction.
add_block_truncating(chain, transactions, now) ==
    LET r == Block_new(tip(chain).index + 1, hash(tip(chain)),
                       SubSeq(transactions, 1, 1), now)
    IN  IF r.ok
        THEN [ok |-> TRUE, err |-> "", chain |-> Append(chain, r.block)]
        ELSE [ok |-> FALSE, err |-> r.err, chain |-> chain]

\* Blockchain::add_block.
add_block(chain, transactions, now) ==
    LET prev_hash == hash(tip(chain))
        index == tip(chain).index + 1
        r == Block_new(index, prev_hash, transactions, now)
    IN  IF r.ok
        THEN [ok |-> TRUE, err |-> "", chain |-> Append(chain, r.block)]
        ELSE [ok |-> FALSE, err |-> r.err, chain |-> chain]

\* Position of the first block whose index field is block_index, 0 if none
\* (iter_mut().find in verify_block).
RECURSIVE FindFrom(_, _, _)
FindFrom(chain, block_index, i) ==
    IF i > Len(chain) THEN 0
    ELSE IF chain[i].index = block_index THEN i
    ELSE FindFrom(chain, block_index, i + 1)

\* A variant of verify_block that records a verification for an absent height
\* on the tip.
verify_block_on_tip(chain, block_index, peer_id) ==
    LET found == FindFrom(chain, block_index, 1)
        pos == IF found = 0 THEN Len(chain) ELSE found
        r == add_verification(chain[pos], peer_id)
    IN  [ok |-> TRUE, err |-> "", ret |-> r.ret,
         chain |-> [chain EXCEPT ![pos] = r.block]]

\* A variant of verify_block that answers Ok(false) for an absent height.
verify_block_lenient(chain, block_index, peer_id) ==
    LET pos == FindFrom(chain, block_index, 1)
    IN  IF pos = 0
        THEN [ok |-> TRUE, err |-> "", ret |-> FALSE, chain |-> chain]
        ELSE LET r == add_verification(chain[pos], peer_id)
             IN  [ok |-> TRUE, err |-> "", ret |-> r.ret,
                  chain |-> [chain EXCEPT ![pos] = r.block]]

\* Blockchain::verify_block.
verify_block(chain, block_index, peer_id) ==
    LET pos == FindFrom(chain, block_index, 1)
    IN  IF pos = 0
        THEN [ok |-> FALSE, err |-> "BlockNotFound",
              block_index |-> block_index, ret |-> FALSE, chain |-> chain]
        ELSE LET r == add_verification(chain[pos], peer_id)
             IN  [ok |-> TRUE, err |-> "", ret |-> r.ret,
                  chain |-> [chain EXCEPT ![pos] = r.block]]

HasBlock(chain, index) == index + 1 <= Len(chain)

\* Blockchain::get_block: the block at position `index` (HasBlock says whether
\* there is one).
get_block(chain, index) == chain[index + 1]

\* Blockchain::blocks_from.
blocks_from(chain, start_index) ==
    IF start_index >= Len(chain) THEN << >>
    ELSE SubSeq(chain, start_index + 1, Len(chain))

\* The loop of is_valid over windows(2), from window i on.
RECURSIVE WindowsOk(_, _)
WindowsOk(chain, i) ==
    IF i >= Len(chain) THEN TRUE
    ELSE IF chain[i + 1].prev_hash # hash(chain[i]) THEN FALSE
    ELSE IF chain[i + 1].index # chain[i].index + 1 THEN FALSE
    ELSE WindowsOk(chain, i + 1)

\* Blockchain::is_valid.
is_valid(chain) ==
    IF chain = << >> THEN FALSE ELSE WindowsOk(chain, 1)

\* A faulty variant of sync_from: ties go to the remote chain.
sync_from_ties_adopt(self, other) ==
    IF len(other) >= len(self) /\ is_valid(other)
    THEN [ret |-> TRUE, chain |-> other]
    ELSE [ret |-> FALSE, chain |-> self]

\* A faulty variant of sync_from: any valid chain is adopted, whatever its length.
sync_from_any_valid(self, other) ==
    IF is_valid(other)
    THEN [ret |-> TRUE, chain |-> other]
    ELSE [ret |-> FALSE, chain |-> self]

\* A faulty variant of sync_from: a valid chain of another length is adopted.
sync_from_other_length(self, other) ==
    IF len(other) # len(self) /\ is_valid(other)
    THEN [ret |-> TRUE, chain |-> other]
    ELSE [ret |-> FALSE, chain |-> self]

\* Blockchain::sync_from.
sync_from(self, other) ==
    IF len(other) > len(self) /\ is_valid(other)
    THEN [ret |-> TRUE, chain |-> other]
    ELSE [ret |-> FALSE, chain |-> self]

-----------------------------------------------------------------------------
(* sp-sync: the byte counter of the SyncManager                            *)

RECURSIVE PayloadBytes(_, _)
PayloadBytes(transactions, i) ==
    IF i > Len(transactions) THEN 0
    ELSE Len(transactions[i].payload) + PayloadBytes(transactions, i + 1)

estimated_block_size(block) == PayloadBytes(block.transactions, 1) + 256

record_download(downloaded_bytes, block) ==
    downloaded_bytes + estimated_block_size(block)

\* SyncStrategy.
OnDemand == [type |-> "OnDemand"]
TimeRange(from, to) == [type |-> "TimeRange", from |-> from, to |-> to]
SizeLimit(max_bytes) == [type |-> "SizeLimit", max_bytes |-> max_bytes]

SyncManager_new(strategy) == [strategy |-> strategy, downloaded_bytes |-> 0]

set_strategy_keeping_counter(manager, strategy) ==
    [strategy |-> strategy, downloaded_bytes |-> manager.downloaded_bytes]

set_strategy(manager, strategy) ==
    [strategy |-> strategy, downloaded_bytes |-> 0]

\* The first filter of blocks_to_sync: the blocks beyond the local tip.
NewBlocks(local, remote_blocks) ==
    SelectSeq(remote_blocks, LAMBDA b : b.index >= len(local))

\* A variant of the TimeRange filter that leaves out the upper bound.
InTimeRange_exclusive(b, from, to) == b.timestamp >= from /\ b.timestamp < to

\* The filter of the TimeRange arm.
InTimeRange(b, from, to) == b.timestamp >= from /\ b.timestamp <= to

\* A variant of the SizeLimit loop that passes over a block that does not fit
\* and goes on with the next one.
RECURSIVE SizeLimitLoop_skipping(_, _, _, _)
SizeLimitLoop_skipping(downloaded_bytes, max_bytes, blocks, i) ==
    IF i > Len(blocks)
    THEN [selected |-> << >>, downloaded_bytes |-> downloaded_bytes]
    ELSE LET estimated == estimated_block_size(blocks[i])
         IN  IF downloaded_bytes + estimated > max_bytes
             THEN SizeLimitLoop_skipping(downloaded_bytes, max_bytes, blocks,
                                         i + 1)
             ELSE LET rest == SizeLimitLoop_skipping(
                                  downloaded_bytes + estimated, max_bytes,
                                  blocks, i + 1)
                  IN  [selected |-> <<blocks[i]>> \o rest.selected,
                       downloaded_bytes |-> rest.downloaded_bytes]

\* The loop of the SizeLimit arm from block i on: what it selects and the
\* counter afterwards.
RECURSIVE SizeLimitLoop(_, _, _, _)
SizeLimitLoop(downloaded_bytes, max_bytes, blocks, i) ==
    IF i > Len(blocks)
    THEN [selected |-> << >>, downloaded_bytes |-> downloaded_bytes]
    ELSE LET estimated == estimated_block_size(blocks[i])
         IN  IF downloaded_bytes + estimated > max_bytes
             THEN [selected |-> << >>, downloaded_bytes |-> downloaded_bytes]
             ELSE LET rest == SizeLimitLoop(downloaded_bytes + estimated,
                                            max_bytes, blocks, i + 1)
                  IN  [selected |-> <<blocks[i]>> \o rest.selected,
                       downloaded_bytes |-> rest.downloaded_bytes]

\* A variant of blocks_to_sync that returns early when nothing is new.
blocks_to_sync_lenient(manager, local, remote_blocks) ==
    LET new_blocks == NewBlocks(local, remote_blocks)
        strategy == manager.strategy
    IN  IF new_blocks = << >> \/ strategy.type = "OnDemand"
        THEN [ok |-> TRUE, err |-> "", blocks |-> << >>, manager |-> manager]
        ELSE IF strategy.type = "TimeRange"
        THEN IF strategy.from > strategy.to
             THEN [ok |-> FALSE, err |-> "InvalidTimeRange", blocks |-> << >>,
                   manager |-> manager]
             ELSE [ok |-> TRUE, err |-> "",
                   blocks |-> SelectSeq(new_blocks,
                                LAMBDA b : InTimeRange(b, strategy.from,
                                                       strategy.to)),
                   manager |-> manager]
        ELSE LET r == SizeLimitLoop(manager.downloaded_bytes,
                                    strategy.max_bytes, new_blocks, 1)
             IN  [ok |-> TRUE, err |-> "", blocks |-> r.selected,
                  manager |-> [manager EXCEPT
                                  !.downloaded_bytes = r.downloaded_bytes]]

\* SyncManager::blocks_to_sync: the result and the manager afterwards.
blocks_to_sync(manager, local, remote_blocks) ==
    LET new_blocks == NewBlocks(local, remote_blocks)
        strategy == manager.strategy
    IN  CASE strategy.type = "OnDemand" ->
                [ok |-> TRUE, err |-> "", blocks |-> << >>,
                 manager |-> manager]
          [] strategy.type = "TimeRange" ->
                IF strategy.from > strategy.to
                THEN [ok |-> FALSE, err |-> "InvalidTimeRange",
                      blocks |-> << >>, manager |-> manager]
                ELSE [ok |-> TRUE, err |-> "",
                      blocks |-> SelectSeq(new_blocks,
                                   LAMBDA b : InTimeRange(b, strategy.from,
                                                          strategy.to)),
                      manager |-> manager]
          [] strategy.type = "SizeLimit" ->
                LET r == SizeLimitLoop(manager.downloaded_bytes,
                                       strategy.max_bytes, new_blocks, 1)
                IN  [ok |-> TRUE, err |-> "", blocks |-> r.selected,
                     manager |-> [manager EXCEPT
                                     !.downloaded_bytes = r.downloaded_bytes]]

-----------------------------------------------------------------------------
(* sp-node: the node engine. A handler is an operator from the node's      *)
(* fields, its input and what the environment answers during the call      *)
(* (env: whether each gossipsub publish succeeds, the clock, the uuid      *)
(* source, the first peer the swarm lists) to the node's new fields and    *)
(* what the call emitted: its result, the NodeEvents sent to the           *)
(* application, the gossip messages published, the sync requests and       *)
(* responses sent.                                                         *)

BLOCK_BATCH_SIZE == 10

NodeModes == {"Full", "Gossip"}

NoPeer == "none"

\* The maps discovered_peers and connected_peers_map are kept as their key sets.
Node_new(peer_id, mode, uuid, now) ==
    [local_peer_id |-> peer_id,
     mode |-> mode,
     blockchain |-> Blockchain_new(uuid, now),
     downloaded_bytes |-> 0,
     pending_transactions |-> << >>,
     discovered_peers |-> {},
     connected_peers_map |-> {}]

Step(node, ok, err, events, published, requests, responses) ==
    [node |-> node, ok |-> ok, err |-> err, events |-> events,
     published |-> published, requests |-> requests, responses |-> responses]

GossipTransaction(tx) == [type |-> "Transaction", tx |-> tx]
GossipBlock(block) == [type |-> "Block", block |-> block]
GossipBlockVerification(block_index, peer_id) ==
    [type |-> "BlockVerification", block_index |-> block_index,
     peer_id |-> peer_id]

RequestChainTip == [type |-> "ChainTip"]
RequestBlocksFrom(from_index) ==
    [type |-> "BlocksFrom", from_index |-> from_index]
ResponseChainTip(tip_index) == [type |-> "ChainTip", tip_index |-> tip_index]
ResponseBlocks(blocks) == [type |-> "Blocks", blocks |-> blocks]

\* Bytes that decode to no message of the protocol.
Undecodable == [type |-> "Undecodable"]

BlockFinalised(block_index) ==
    [type |-> "BlockFinalised", block_index |-> block_index]
ChainSynced(new_length) == [type |-> "ChainSynced", new_length |-> new_length]
TransactionReceived(tx) == [type |-> "TransactionReceived", tx |-> tx]
BlockReceived(block) == [type |-> "BlockReceived", block |-> block]
PeerConnected(peer_id) == [type |-> "PeerConnected", peer_id |-> peer_id]
PeerDisconnected(peer_id) == [type |-> "PeerDisconnected", peer_id |-> peer_id]

send_verification(node, block_index, env) ==
    LET msg == GossipBlockVerification(block_index, node.local_peer_id)
        r == verify_block(node.blockchain, block_index, node.local_peer_id)
    IN  IF ~env.publish_verify
        THEN Step(node, FALSE, "Gossipsub", << >>, << >>, << >>, << >>)
        ELSE IF ~r.ok
        THEN Step(node, FALSE, r.err, << >>, <<msg>>, << >>, << >>)
        ELSE Step([node EXCEPT !.blockchain = r.chain], TRUE, "",
                  IF r.ret THEN <<BlockFinalised(block_index)>> ELSE << >>,
                  <<msg>>, << >>, << >>)

\* A variant of form_block that publishes the block before appending it and
\* gives up when the publish fails.
form_block_publish_first(node, env) ==
    IF node.pending_transactions = << >>
    THEN Step(node, FALSE, "NoPendingTransactions", << >>, << >>, << >>, << >>)
    ELSE IF ~env.publish_block
    THEN Step(node, FALSE, "Gossipsub", << >>, << >>, << >>, << >>)
    ELSE
        LET r == add_block(node.blockchain, node.pending_transactions, env.now)
            added == [node EXCEPT !.pending_transactions = << >>,
                                  !.blockchain = r.chain]
            v == send_verification(added, tip(r.chain).index, env)
        IN  IF node.mode = "Full"
            THEN Step(v.node, v.ok, v.err, v.events,
                      <<GossipBlock(tip(r.chain))>> \o v.published,
                      << >>, << >>)
            ELSE Step(added, TRUE, "", << >>, <<GossipBlock(tip(r.chain))>>,
                      << >>, << >>)

\* A variant of form_block that sends the self-verification in every mode.
form_block_always_verifies(node, env) ==
    IF node.pending_transactions = << >>
    THEN Step(node, FALSE, "NoPendingTransactions", << >>, << >>, << >>, << >>)
    ELSE
        LET r == add_block(node.blockchain, node.pending_transactions, env.now)
            added == [node EXCEPT !.pending_transactions = << >>,
                                  !.blockchain = r.chain]
            announced == IF env.publish_block
                         THEN <<GossipBlock(tip(r.chain))>> ELSE << >>
            v == send_verification(added, tip(r.chain).index, env)
        IN  Step(v.node, v.ok, v.err, v.events, announced \o v.published,
                 << >>, << >>)

\* A variant of form_block that seals the oldest pending transaction only and
\* empties the pool.
form_block_sealing_first(node, env) ==
    IF node.pending_transactions = << >>
    THEN Step(node, FALSE, "NoPendingTransactions", << >>, << >>, << >>, << >>)
    ELSE
        LET r == add_block(node.blockchain,
                           <<Head(node.pending_transactions)>>, env.now)
            added == [node EXCEPT !.pending_transactions = << >>,
                                  !.blockchain = r.chain]
        IN  Step(added, TRUE, "", << >>,
                 IF env.publish_block
                 THEN <<GossipBlock(tip(r.chain))>> ELSE << >>,
                 << >>, << >>)

form_block(node, env) ==
    IF node.pending_transactions = << >>
    THEN Step(node, FALSE, "NoPendingTransactions", << >>, << >>, << >>, << >>)
    ELSE
        LET txs == node.pending_transactions
            taken == [node EXCEPT !.pending_transactions = << >>]
            r == add_block(node.blockchain, txs, env.now)
            added == [taken EXCEPT !.blockchain = r.chain]
            block == tip(r.chain)
            announced == IF env.publish_block
                         THEN <<GossipBlock(block)>> ELSE << >>
            v == send_verification(added, block.index, env)
        IN  IF ~r.ok
            THEN Step(taken, FALSE, r.err, << >>, << >>, << >>, << >>)
            ELSE IF node.mode = "Full"
            THEN Step(v.node, v.ok, v.err, v.events,
                      announced \o v.published, << >>, << >>)
            ELSE Step(added, TRUE, "", << >>, announced, << >>, << >>)

\* A variant that seals only once the pool has grown past the batch size.
maybe_form_block_late(node, env) ==
    IF Len(node.pending_transactions) > BLOCK_BATCH_SIZE
    THEN form_block(node, env)
    ELSE Step(node, TRUE, "", << >>, << >>, << >>, << >>)

maybe_form_block(node, env) ==
    IF Len(node.pending_transactions) >= BLOCK_BATCH_SIZE
    THEN form_block(node, env)
    ELSE Step(node, TRUE, "", << >>, << >>, << >>, << >>)

broadcast_transaction(node, tx, env) ==
    IF ~env.publish_tx
    THEN Step(node, FALSE, "Gossipsub", << >>, << >>, << >>, << >>)
    ELSE
        LET pushed == [node EXCEPT !.pending_transactions = Append(@, tx)]
            m == maybe_form_block(pushed, env)
        IN  Step(m.node, m.ok, m.err, m.events,
                 <<GossipTransaction(tx)>> \o m.published, << >>, << >>)

\* A variant that stores a gossiped block at the end of the local chain.
handle_gossip_message_storing_blocks(node, msg, env) ==
    IF msg.type = "Block"
    THEN Step([node EXCEPT !.blockchain = Append(@, msg.block)], TRUE, "",
              <<BlockReceived(msg.block)>>, << >>, << >>, << >>)
    ELSE Step(node, TRUE, "", << >>, << >>, << >>, << >>)

\* A variant whose Block arm puts the gossiped block in place of the local
\* block of the same height.
handle_gossip_message_replacing_block(node, msg, env) ==
    LET pos == IF msg.type = "Block"
               THEN FindFrom(node.blockchain, msg.block.index, 1) ELSE 0
    IN  IF msg.type # "Block"
        THEN Step(node, TRUE, "", << >>, << >>, << >>, << >>)
        ELSE Step(IF pos = 0 THEN node
                  ELSE [node EXCEPT !.blockchain[pos] = msg.block],
                  TRUE, "", <<BlockReceived(msg.block)>>, << >>, << >>, << >>)

handle_gossip_message(node, msg, env) ==
    CASE msg.type = "Transaction" ->
            LET pushed == [node EXCEPT
                              !.pending_transactions = Append(@, msg.tx)]
                m == maybe_form_block(pushed, env)
            IN  Step(m.node, TRUE, "",
                     <<TransactionReceived(msg.tx)>> \o m.events,
                     m.published, << >>, << >>)
      [] msg.type = "Block" ->
            LET v == send_verification(node, msg.block.index, env)
            IN  IF node.mode = "Full"
                THEN Step(v.node, TRUE, "",
                          <<BlockReceived(msg.block)>> \o v.events,
                          v.published, << >>, << >>)
                ELSE Step(node, TRUE, "", <<BlockReceived(msg.block)>>,
                          << >>, << >>, << >>)
      [] msg.type = "BlockVerification" ->
            LET r == verify_block(node.blockchain, msg.block_index,
                                  msg.peer_id)
            IN  IF r.ok
                THEN Step([node EXCEPT !.blockchain = r.chain], TRUE, "",
                          IF r.ret
                          THEN <<BlockFinalised(msg.block_index)>>
                          ELSE << >>,
                          << >>, << >>, << >>)
                ELSE Step(node, TRUE, "", << >>, << >>, << >>, << >>)
      [] OTHER -> Step(node, TRUE, "", << >>, << >>, << >>, << >>)

RECURSIVE RecordDownloads(_, _, _)
RecordDownloads(downloaded_bytes, remote_blocks, i) ==
    IF i > Len(remote_blocks) THEN downloaded_bytes
    ELSE RecordDownloads(
            IF remote_blocks[i].index > 0
            THEN record_download(downloaded_bytes, remote_blocks[i])
            ELSE downloaded_bytes,
            remote_blocks, i + 1)

\* A variant of apply_sync_response that also asks for blocks when the reported
\* tip equals the local tip.
apply_sync_response_ties(node, response, env) ==
    CASE response.type = "ChainTip" ->
            LET local_tip == tip(node.blockchain).index
            IN  IF response.tip_index >= local_tip /\ env.next_peer # NoPeer
                THEN Step(node, TRUE, "", << >>, << >>,
                          <<[to |-> env.next_peer,
                             request |-> RequestBlocksFrom(local_tip + 1)]>>,
                          << >>)
                ELSE Step(node, TRUE, "", << >>, << >>, << >>, << >>)
      [] response.type = "Blocks" ->
            LET remote_chain == Blockchain_new(env.uuid, env.now)
                recorded == [node EXCEPT !.downloaded_bytes =
                                RecordDownloads(@, response.blocks, 1)]
                s == sync_from(node.blockchain, remote_chain)
            IN  IF s.ret
                THEN Step([recorded EXCEPT !.blockchain = s.chain], TRUE, "",
                          <<ChainSynced(len(s.chain))>>, << >>, << >>, << >>)
                ELSE Step(recorded, TRUE, "", << >>, << >>, << >>, << >>)
      [] OTHER -> Step(node, TRUE, "", << >>, << >>, << >>, << >>)

apply_sync_response(node, response, env) ==
    CASE response.type = "ChainTip" ->
            LET local_tip == tip(node.blockchain).index
            IN  IF response.tip_index > local_tip /\ env.next_peer # NoPeer
                THEN Step(node, TRUE, "", << >>, << >>,
                          <<[to |-> env.next_peer,
                             request |-> RequestBlocksFrom(local_tip + 1)]>>,
                          << >>)
                ELSE Step(node, TRUE, "", << >>, << >>, << >>, << >>)
      [] response.type = "Blocks" ->
            LET remote_chain == Blockchain_new(env.uuid, env.now)
                recorded == [node EXCEPT !.downloaded_bytes =
                                RecordDownloads(@, response.blocks, 1)]
                s == sync_from(node.blockchain, remote_chain)
            IN  IF s.ret
                THEN Step([recorded EXCEPT !.blockchain = s.chain], TRUE, "",
                          <<ChainSynced(len(s.chain))>>, << >>, << >>, << >>)
                ELSE Step(recorded, TRUE, "", << >>, << >>, << >>, << >>)
      [] OTHER -> Step(node, TRUE, "", << >>, << >>, << >>, << >>)

handle_request_response(node, message, env) ==
    IF message.kind = "Request"
    THEN CASE message.body.type = "ChainTip" ->
                Step(node, TRUE, "", << >>, << >>, << >>,
                     <<ResponseChainTip(tip(node.blockchain).index)>>)
           [] message.body.type = "BlocksFrom" ->
                Step(node, TRUE, "", << >>, << >>, << >>,
                     <<ResponseBlocks(blocks_from(node.blockchain,
                                                  message.body.from_index))>>)
           [] OTHER -> Step(node, TRUE, "", << >>, << >>, << >>, << >>)
    ELSE apply_sync_response(node, message.body, env)

request_chain_tip(peer) == [to |-> peer, request |-> RequestChainTip]

\* A variant of the ConnectionEstablished arm that asks for the chain tip only
\* on the first connection to a peer.
ConnectionEstablished_once(node, peer_id) ==
    Step([node EXCEPT !.discovered_peers = @ \ {peer_id},
                      !.connected_peers_map = @ \cup {peer_id}],
         TRUE, "", <<PeerConnected(peer_id)>>, << >>,
         IF peer_id \in node.connected_peers_map
         THEN << >> ELSE <<request_chain_tip(peer_id)>>,
         << >>)

ConnectionEstablished(node, peer_id) ==
    Step([node EXCEPT !.discovered_peers = @ \ {peer_id},
                      !.connected_peers_map = @ \cup {peer_id}],
         TRUE, "", <<PeerConnected(peer_id)>>, << >>,
         <<request_chain_tip(peer_id)>>, << >>)

ConnectionClosed(node, peer_id) ==
    Step([node EXCEPT !.connected_peers_map = @ \ {peer_id}],
         TRUE, "", <<PeerDisconnected(peer_id)>>, << >>, << >>, << >>)

-----------------------------------------------------------------------------
(* Inputs of the chain-level specifications.                               *)

SampleTxs ==
    <<Transaction_new("PostCreated", "post", "u1", 1),
      Transaction_new("VoteCast", "vote", "u2", 2),
      Transaction_new("UserRegistered", "alice", "u3", 1)>>

\* The empty list (add_block refuses it), a single transaction, and an odd
\* number of transactions (the Merkle tree pads two of its levels).
TxLists == {SubSeq(SampleTxs, 1, k) : k \in {0, 1, 3}}

\* What add_block is called with, and what the clock returns in that call.
BlockDraws ==
    {<<SubSeq(SampleTxs, 1, 0), 1>>,
     <<SubSeq(SampleTxs, 1, 1), 2>>,
     <<SubSeq(SampleTxs, 1, 3), 1>>}

\* What Uuid::new_v4() and the clock return while a chain is constructed.
GenesisDraws == {<<"u1", 1>>, <<"u2", 2>>}

Unverified(chain) ==
    [i \in 1..Len(chain) |-> [chain[i] EXCEPT !.verifications = << >>]]

Other1 == Blockchain_new("u2", 2)
Other2 == add_block(Other1, <<SampleTxs[1]>>, 2).chain
Other3 == add_block(Other2, <<SampleTxs[2], SampleTxs[1]>>, 1).chain
Other4 == add_block(Other3, <<SampleTxs[3]>>, 2).chain
Other3Verified ==
    verify_block(verify_block(Other3, 1, "p3").chain, 2, "p1").chain

\* Chains another process can hold: built through the API, or decoded from
\* bytes (Blockchain derives Deserialize, so any block vector can arrive):
\* an empty chain, a broken prev_hash link, an index gap, a missing genesis.
OtherChains ==
    {Other2, Other4, Other3Verified,
     << >>,
     [Other4 EXCEPT ![3].prev_hash = ZeroHash],
     [Other4 EXCEPT ![4].index = 4],
     blocks_from(Other3, 1)}

\* What sync_from can be handed when the local chain is `chain`: one of the
\* chains above, the local chain itself, or the chain of a peer that holds the
\* same blocks plus one more and has recorded no verification yet.
OthersFor(chain) ==
    OtherChains \cup {chain}
    \cup (IF Len(chain) < MaxLen
          THEN {add_block(Unverified(chain), <<SampleTxs[2]>>, 2).chain}
          ELSE {})

RECURSIVE SumVerifs(_, _)
SumVerifs(chain, i) ==
    IF i > Len(chain) THEN 0
    ELSE Len(chain[i].verifications) + SumVerifs(chain, i + 1)

TotalVerifs(chain) == SumVerifs(chain, 1)

Op(op, arg, ok, ret, err) ==
    [op |-> op, arg |-> arg, ok |-> ok, ret |-> ret, err |-> err]

-----------------------------------------------------------------------------
(* Variables of the node-level specifications: `nodes` maps a node's name  *)
(* to its fields, `net` holds the messages in flight, `out` what the       *)
(* latest handler call emitted, and `attested` the header hashes of the    *)
(* blocks each node has published a BlockVerification for. The chain-level *)
(* specifications leave them idle.                                         *)

NoNodes == << >>

NoNet == [gossip |-> << >>, rr |-> {}, broadcasts |-> 0]

\* `op` names the handler, `on` the type of the message it was handed.
Out(n, op, on, step) ==
    [node |-> n, op |-> op, on |-> on, ok |-> step.ok, err |-> step.err,
     events |-> step.events, published |-> step.published,
     requests |-> step.requests, responses |-> step.responses]

NoStep ==
    [node |-> NoPeer, op |-> "new", on |-> "", ok |-> TRUE, err |-> "",
     events |-> << >>, published |-> << >>, requests |-> << >>,
     responses |-> << >>]

Idle ==
    /\ nodes = NoNodes /\ net = NoNet /\ out = NoStep /\ attested = << >>

nodeVars == <<nodes, net, out, attested>>

chainVars == <<a, aOnlyAppends, last>>

ChainIdle ==
    /\ a = << >> /\ aOnlyAppends = TRUE
    /\ last = Op("new", << >>, TRUE, FALSE, "")

\* `merkle` holds a Merkle tree with the latest proof taken from it, `mgr` a
\* SyncManager with its latest call; only the specifications of sp-merkle
\* and sp-sync use them.
\* The variables of the specifications of the peer indices and of the host
\* tasks.
hostVars == <<peering, host>>

NoPeering == [op |-> "none"]

NoHost == [op |-> "none"]

HostIdle == peering = NoPeering /\ host = NoHost

libVars == <<merkle, mgr, hostVars>>

NoMerkle == [op |-> "none"]

NoManager == [op |-> "none"]

LibIdle == merkle = NoMerkle /\ mgr = NoManager /\ HostIdle

-----------------------------------------------------------------------------
(* SpecChain: one Blockchain value driven through its public API. `last`   *)
(* holds the name and the outcome of the latest call.                      *)

InitChain ==
    /\ a = Blockchain_new("u1", 1)
    /\ last = Op("new", << >>, TRUE, FALSE, "")
    /\ aOnlyAppends = TRUE
    /\ Idle
    /\ LibIdle

AddBlock ==
    \E draw \in BlockDraws :
        LET txs == draw[1]
            now == draw[2]
            r == add_block(a, txs, now)
        IN  /\ txs = << >> \/ Len(a) < MaxLen
            /\ a' = r.chain
            /\ last' = Op("add_block", << >>, r.ok, FALSE, r.err)
            /\ UNCHANGED aOnlyAppends
            /\ UNCHANGED <<nodeVars, libVars>>

VerifyBlock ==
    \E h \in 0..Len(a), p \in ChainPeers :
        LET r == verify_block(a, h, p)
        IN  /\ r.chain = a \/ TotalVerifs(r.chain) <= MaxVerifs
            /\ a' = r.chain
            /\ last' = Op("verify_block", << >>, r.ok, r.ret, r.err)
            /\ aOnlyAppends' = (aOnlyAppends /\ r.chain = a)
            /\ UNCHANGED <<nodeVars, libVars>>

SyncFrom ==
    \E other \in OthersFor(a) :
        LET r == sync_from(a, other)
        IN  /\ a' = r.chain
            /\ last' = Op("sync_from", << >>, TRUE, r.ret, "")
            /\ aOnlyAppends' = (aOnlyAppends /\ ~r.ret)
            /\ UNCHANGED <<nodeVars, libVars>>

NextChain == AddBlock \/ VerifyBlock \/ SyncFrom

SpecChain == InitChain /\ [][NextChain]_vars

-----------------------------------------------------------------------------
(* SpecBlock: verify_block on a chain holding one freshly created block.   *)

InitBlock ==
    /\ \E draw \in GenesisDraws, now \in Times, txs \in TxLists \ {<< >>} :
         /\ a = add_block(Blockchain_new(draw[1], draw[2]), txs, now).chain
         /\ last = Op("add_block", <<txs, now>>, TRUE, FALSE, "")
    /\ aOnlyAppends = TRUE
    /\ Idle
    /\ LibIdle

VerifyFresh ==
    \E h \in 1..2, p \in Peers :
        LET r == verify_block(a, h, p)
        IN  /\ a' = r.chain
            /\ last' = Op("verify_block", <<h, p>>, r.ok, r.ret, r.err)
            /\ aOnlyAppends' = (aOnlyAppends /\ r.chain = a)
            /\ UNCHANGED <<nodeVars, libVars>>

NextBlock == VerifyFresh

SpecBlock == InitBlock /\ [][NextBlock]_vars

-----------------------------------------------------------------------------
(* Inputs shared by the node-level specifications.                         *)

\* What the environment answers during a handler call. QuietEnv serves the
\* handlers that ask it nothing; SealEnvs those that may seal a block (the two
\* publishes of form_block and the clock); SendEnvs adds the publish of
\* broadcast_transaction.
QuietEnv ==
    [publish_tx |-> TRUE, publish_block |-> TRUE, publish_verify |-> TRUE,
     now |-> 2, uuid |-> "u2", next_peer |-> NoPeer]

SealEnvs ==
    {[QuietEnv EXCEPT !.publish_block = pb, !.publish_verify = pv] :
        pb \in BOOLEAN, pv \in BOOLEAN}

SendEnvs == {[env EXCEPT !.publish_tx = pt] : env \in SealEnvs, pt \in BOOLEAN}

GossipEnvs(msg) ==
    IF msg.type \in {"Transaction", "Block"} THEN SealEnvs ELSE {QuietEnv}

HasVerification(published) ==
    \E i \in 1..Len(published) : published[i].type = "BlockVerification"

-----------------------------------------------------------------------------
(* SpecNode: one node and an arbitrary environment: the application calls  *)
(* broadcast_transaction and form_block, the swarm hands in any gossip     *)
(* message, sync request, sync response and connection event.              *)

\* Longest chain the node of SpecNode seals (genesis included).
NodeMaxLen == 2

\* The node of SpecNode accepts sync responses up to this many downloaded bytes.
MaxDownloadedBytes == 300

\* The application of SpecNode calls form_block while at most this many
\* transactions are pending; fuller blocks are sealed by maybe_form_block.
FormAtMost == 1

NodeTx == SampleTxs[1]

NodePeers == {"p2", "p3"}

\* The peer that connects to and disconnects from the node of SpecNode.
NodeNeighbours == {"p2"}

GossipInputs ==
    {GossipTransaction(NodeTx), GossipBlock(Other2[2]), GossipBlock(Other4[4]),
     Undecodable}
    \cup {GossipBlockVerification(h, p) : h \in 1..2, p \in NodePeers}

RequestInputs ==
    {RequestChainTip, RequestBlocksFrom(0), RequestBlocksFrom(1),
     RequestBlocksFrom(5), Undecodable}

ResponseInputs ==
    {ResponseChainTip(0), ResponseChainTip(3), ResponseBlocks(<< >>),
     ResponseBlocks(blocks_from(Other2, 1)), ResponseBlocks(Other4),
     Undecodable}

NodeBounded(node) ==
    /\ Len(node.blockchain) <= NodeMaxLen
    /\ TotalVerifs(node.blockchain) <= MaxVerifs
    /\ node.downloaded_bytes <= MaxDownloadedBytes

InitNode ==
    /\ \E mode \in NodeModes :
         nodes = [n \in {"n1"} |-> Node_new(n, mode, "u1", 1)]
    /\ net = NoNet
    /\ out = NoStep
    /\ attested = << >>
    /\ ChainIdle
    /\ LibIdle

NodeStep(op, on, step) ==
    /\ NodeBounded(step.node)
    /\ nodes' = [nodes EXCEPT !["n1"] = step.node]
    /\ out' = Out("n1", op, on, step)
    /\ UNCHANGED <<net, attested, chainVars, libVars>>

NodeBroadcast ==
    \E env \in SendEnvs :
        NodeStep("broadcast_transaction", "",
                 broadcast_transaction(nodes["n1"], NodeTx, env))

NodeFormBlock ==
    /\ Len(nodes["n1"].pending_transactions) <= FormAtMost
    /\ \E env \in SealEnvs :
         NodeStep("form_block", "", form_block(nodes["n1"], env))

NodeGossip ==
    \E msg \in GossipInputs :
      \E env \in GossipEnvs(msg) :
        NodeStep("Gossip", msg.type,
                 handle_gossip_message(nodes["n1"], msg, env))

NodeRequest ==
    \E req \in RequestInputs :
        NodeStep("Request", req.type,
                 handle_request_response(
                     nodes["n1"], [kind |-> "Request", body |-> req],
                     QuietEnv))

NodeResponse ==
    \E resp \in ResponseInputs, peer \in NodeNeighbours \cup {NoPeer} :
        NodeStep("Response", resp.type,
                 handle_request_response(
                     nodes["n1"], [kind |-> "Response", body |-> resp],
                     [QuietEnv EXCEPT !.next_peer = peer]))

NodeConnected ==
    \E peer \in NodeNeighbours :
        NodeStep("connected", "", ConnectionEstablished(nodes["n1"], peer))

NodeDisconnected ==
    \E peer \in NodeNeighbours :
        NodeStep("disconnected", "", ConnectionClosed(nodes["n1"], peer))

NextNode ==
    \/ NodeBroadcast \/ NodeFormBlock \/ NodeGossip \/ NodeRequest
    \/ NodeResponse \/ NodeConnected \/ NodeDisconnected

SpecNode == InitNode /\ [][NextNode]_vars

-----------------------------------------------------------------------------
(* SpecSync: two nodes seal blocks on their own, then connect and run the  *)
(* sync handshake over the request-response protocol. Gossip published     *)
(* before the connection has no receiver.                                  *)

\* Longest chain a node of SpecSync seals (genesis included).
SyncMaxLen == 3

SyncNodes == {"n1", "n2"}

Unconnected == \A n \in DOMAIN nodes : nodes[n].connected_peers_map = {}

\* The messages a handler call at node n puts on the request-response
\* protocol: its requests, and its responses to the peer that asked.
Sent(n, asker, step) ==
    {[from |-> n, to |-> step.requests[i].to, kind |-> "Request",
      body |-> step.requests[i].request] : i \in 1..Len(step.requests)}
    \cup
    {[from |-> n, to |-> asker, kind |-> "Response",
      body |-> step.responses[i]] : i \in 1..Len(step.responses)}

InitSync ==
    /\ \E draws \in [SyncNodes -> GenesisDraws] :
         nodes = [n \in SyncNodes |->
                     Node_new(n, "Full", draws[n][1], draws[n][2])]
    /\ net = NoNet
    /\ out = NoStep
    /\ attested = << >>
    /\ ChainIdle
    /\ LibIdle

SyncBroadcast ==
    \E n \in SyncNodes, env \in SendEnvs :
        LET step == broadcast_transaction(nodes[n], NodeTx, env)
        IN  /\ Unconnected
            /\ Len(nodes[n].pending_transactions) < FormAtMost
            /\ nodes' = [nodes EXCEPT ![n] = step.node]
            /\ out' = Out(n, "broadcast_transaction", "", step)
            /\ UNCHANGED <<net, attested, chainVars, libVars>>

SyncFormBlock ==
    \E n \in SyncNodes, env \in SealEnvs :
        LET step == form_block(nodes[n], env)
        IN  /\ Unconnected
            /\ Len(step.node.blockchain) <= SyncMaxLen
            /\ nodes' = [nodes EXCEPT ![n] = step.node]
            /\ out' = Out(n, "form_block", "", step)
            /\ UNCHANGED <<net, attested, chainVars, libVars>>

SyncConnected ==
    \E n \in SyncNodes, peer \in SyncNodes :
        LET step == ConnectionEstablished(nodes[n], peer)
        IN  /\ peer # n
            /\ peer \notin nodes[n].connected_peers_map
            /\ nodes' = [nodes EXCEPT ![n] = step.node]
            /\ net' = [net EXCEPT !.rr = @ \cup Sent(n, peer, step)]
            /\ out' = Out(n, "connected", "", step)
            /\ UNCHANGED <<attested, chainVars, libVars>>

SyncDeliver ==
    \E m \in net.rr :
        LET step == handle_request_response(
                        nodes[m.to], [kind |-> m.kind, body |-> m.body],
                        [QuietEnv EXCEPT !.next_peer = m.from])
        IN  /\ nodes' = [nodes EXCEPT ![m.to] = step.node]
            /\ net' = [net EXCEPT !.rr = (@ \ {m}) \cup Sent(m.to, m.from, step)]
            /\ out' = Out(m.to, m.kind, m.body.type, step)
            /\ UNCHANGED <<attested, chainVars, libVars>>

NextSync == SyncBroadcast \/ SyncFormBlock \/ SyncConnected \/ SyncDeliver

SpecSync == InitSync /\ [][NextSync]_vars

-----------------------------------------------------------------------------
(* SpecNet: three Full nodes, connected to one another, their handshakes   *)
(* done on chains of equal length (SyncSettled below is such a state).     *)
(* They broadcast a transaction, seal blocks and exchange gossip over      *)
(* ordered links.                                                          *)

\* Longest chain a node of SpecNet seals (genesis included).
NetMaxLen == 2

\* Calls to broadcast_transaction made in SpecNet, over all nodes.
MaxBroadcasts == 1

NetNodes == {"n1", "n2", "n3"}

\* The nodes whose application calls form_block; the third only verifies.
NetSealers == {"n1", "n2"}

\* What Uuid::new_v4() and the clock returned when each node was constructed.
NetGenesis ==
    [n \in NetNodes |->
        CASE n = "n1" -> <<"u1", 1>>
          [] n = "n2" -> <<"u2", 2>>
          [] OTHER -> <<"u3", 1>>]

Links == {l \in NetNodes \X NetNodes : l[1] # l[2]}

\* Gossip published by node n reaches the peers n is connected to.
Publish(gossip, n, published) ==
    [l \in Links |->
        IF l[1] = n /\ l[2] \in nodes[n].connected_peers_map
        THEN gossip[l] \o published
        ELSE gossip[l]]

\* A node attests a block when it publishes a BlockVerification for it: the
\* block it has just sealed, or the block it has just received.
Attest(n, step, block) ==
    IF HasVerification(step.published)
    THEN [attested EXCEPT ![n] = @ \cup {hash(block)}]
    ELSE attested

InitNet ==
    /\ nodes = [n \in NetNodes |->
                     [Node_new(n, "Full", NetGenesis[n][1], NetGenesis[n][2])
                         EXCEPT !.connected_peers_map = NetNodes \ {n}]]
    /\ net = [gossip |-> [l \in Links |-> << >>], rr |-> {}, broadcasts |-> 0]
    /\ out = NoStep
    /\ attested = [n \in NetNodes |-> {}]
    /\ ChainIdle
    /\ LibIdle

NetBroadcast ==
    \E n \in NetNodes, env \in SendEnvs :
        LET step == broadcast_transaction(nodes[n], NodeTx, env)
        IN  /\ net.broadcasts < MaxBroadcasts
            /\ Len(step.node.blockchain) <= NetMaxLen
            /\ nodes' = [nodes EXCEPT ![n] = step.node]
            /\ net' = [net EXCEPT
                          !.gossip = Publish(@, n, step.published),
                          !.broadcasts = @ + 1]
            /\ attested' = Attest(n, step, tip(step.node.blockchain))
            /\ out' = Out(n, "broadcast_transaction", "", step)
            /\ UNCHANGED <<chainVars, libVars>>

NetFormBlock ==
    \E n \in NetSealers, env \in SealEnvs :
        LET step == form_block(nodes[n], env)
        IN  /\ Len(step.node.blockchain) <= NetMaxLen
            /\ nodes' = [nodes EXCEPT ![n] = step.node]
            /\ net' = [net EXCEPT !.gossip = Publish(@, n, step.published)]
            /\ attested' = Attest(n, step, tip(step.node.blockchain))
            /\ out' = Out(n, "form_block", "", step)
            /\ UNCHANGED <<chainVars, libVars>>

NetDeliver ==
    \E l \in Links :
        /\ net.gossip[l] # << >>
        /\ LET n == l[2]
               msg == Head(net.gossip[l])
           IN  \E env \in GossipEnvs(msg) :
                 LET step == handle_gossip_message(nodes[n], msg, env)
                     rest == [net.gossip EXCEPT ![l] = Tail(@)]
                 IN  /\ Len(step.node.blockchain) <= NetMaxLen
                     /\ nodes' = [nodes EXCEPT ![n] = step.node]
                     /\ net' = [net EXCEPT
                                   !.gossip = Publish(rest, n, step.published)]
                     /\ attested' =
                            IF msg.type = "Block"
                            THEN Attest(n, step, msg.block)
                            ELSE Attest(n, step, tip(step.node.blockchain))
                     /\ out' = Out(n, "Gossip", msg.type, step)
                     /\ UNCHANGED <<chainVars, libVars>>

NextNet == NetBroadcast \/ NetFormBlock \/ NetDeliver

SpecNet == InitNet /\ [][NextNet]_vars

-----------------------------------------------------------------------------
(* Properties of the chain and of a block's verification set.              *)

\* Invariant (2) of the chain, stated over all adjacent pairs at once.
StructurallyValid(chain) ==
    /\ chain # << >>
    /\ \A i \in 1..(Len(chain) - 1) :
         /\ chain[i + 1].prev_hash = hash(chain[i])
         /\ chain[i + 1].index = chain[i].index + 1

VerifierSet(b) == {b.verifications[i] : i \in 1..Len(b.verifications)}

NoDuplicateVerifiers(chain) ==
    \A i \in 1..Len(chain) :
        Cardinality(VerifierSet(chain[i])) = Len(chain[i].verifications)

\* C2: a chain produced only by Blockchain::new and successful add_block
\* calls, with any transaction lists and timestamps, passes is_valid().
C2_BuiltChainIsValid == aOnlyAppends => is_valid(a)

C2_Witness ==
    /\ aOnlyAppends
    /\ last.op = "add_block" /\ last.ok
    /\ Len(a) >= 3
    /\ Len(a[2].transactions) # Len(a[3].transactions)

\* C3: a.sync_from(b) returns true exactly when b is strictly longer than a
\* and structurally valid, and then a is b; otherwise it returns false and a
\* keeps its blocks and their verification sets.
C3_SyncFromLongestValid ==
    \A other \in OthersFor(a) :
        LET r == sync_from(a, other)
            adopt == Len(other) > Len(a) /\ StructurallyValid(other)
        IN  /\ r.ret = adopt
            /\ r.chain = IF adopt THEN other ELSE a

C3_Witness ==
    /\ last.op = "sync_from" /\ last.ret
    /\ a = Other3Verified

C6_FinalisedStaysFinalised ==
    [][\A h \in 0..(Len(a) - 1) :
          is_finalised(get_block(a, h)) =>
              HasBlock(a', h) /\ is_finalised(get_block(a', h))]_vars

\* C7: a block present at height h keeps its header hash and transactions in
\* every later state, and its verification set never loses a member.
C7_AppendOnly ==
    [][\A h \in 0..(Len(a) - 1) :
          /\ HasBlock(a', h)
          /\ hash(get_block(a', h)) = hash(get_block(a, h))
          /\ get_block(a', h).transactions = get_block(a, h).transactions
          /\ VerifierSet(get_block(a, h)) \subseteq
                 VerifierSet(get_block(a', h))]_vars

\* C9: verify_block(h, p) for a peer p already recorded on block h changes
\* nothing (same verification sets, same finalised status), and no block's
\* verification list ever names a peer twice.
C9_VerificationIdempotent ==
    [][/\ NoDuplicateVerifiers(a')
       /\ (/\ last'.op = "verify_block"
           /\ HasBlock(a, last'.arg[1])
           /\ Contains(get_block(a, last'.arg[1]).verifications, last'.arg[2]))
          => /\ a' = a
             /\ last'.ret = is_finalised(get_block(a, last'.arg[1]))]_vars

C9_Witness ==
    /\ last.op = "verify_block" /\ last.ok /\ ~last.ret
    /\ Len(get_block(a, 1).verifications) = 2
    /\ last.arg[2] = get_block(a, 1).verifications[1]

-----------------------------------------------------------------------------
(* Properties of a node's chain and of the network.                        *)

\* Block 0 as Block::genesis() builds it, whatever the uuid source and the
\* clock returned, and whichever verifications it has collected since.
IsGenesis(b) ==
    /\ b.index = 0 /\ b.prev_hash = ZeroHash /\ b.timestamp = 0 /\ b.nonce = 0
    /\ Len(b.transactions) = 1
    /\ b.transactions[1].kind = "NodeAdded"
    /\ b.transactions[1].payload = "genesis"
    /\ b.merkle_root = root_hash(MerkleTree_new(b.transactions))

OtherNode(n) == CHOOSE m \in DOMAIN nodes : m # n

\* C1: in every state a node reaches, through any broadcasts, gossip, sync
\* requests and responses, connection events and form_block calls, its chain
\* is non-empty, block 0 is the genesis block, every block links to the hash
\* of its predecessor with the next index, and the block at position i has
\* index i, so get_block(h) and verify_block(h) address the same block.
C1_NodeChainInvariants ==
    \A n \in DOMAIN nodes :
        LET chain == nodes[n].blockchain
        IN  /\ chain # << >>
            /\ IsGenesis(get_block(chain, 0))
            /\ \A i \in 1..(Len(chain) - 1) :
                 /\ chain[i + 1].prev_hash = hash(chain[i])
                 /\ chain[i + 1].index = chain[i].index + 1
            /\ \A h \in 0..(Len(chain) - 1) :
                 /\ get_block(chain, h).index = h
                 /\ FindFrom(chain, h, 1) = h + 1

C1_Witness ==
    /\ out.op = "Gossip" /\ out.on = "Block"
    /\ Len(nodes["n1"].blockchain) = 2
    /\ Len(nodes["n1"].blockchain[2].transactions) = BLOCK_BATCH_SIZE
    /\ nodes["n1"].downloaded_bytes > 0

\* C4: when a node applies the Blocks response that ends the sync handshake
\* with a peer whose chain is strictly longer than its own and structurally
\* valid, its chain then has the peer's length and a ChainSynced event
\* carrying that length is emitted.
C4_HandshakeAdoptsLongerChain ==
    [][\A n \in DOMAIN nodes :
          (/\ out'.node = n /\ out'.op = "Response" /\ out'.on = "Blocks"
           /\ Len(nodes[OtherNode(n)].blockchain) > Len(nodes[n].blockchain)
           /\ is_valid(nodes[OtherNode(n)].blockchain))
          => /\ Len(nodes'[n].blockchain)
                    = Len(nodes[OtherNode(n)].blockchain)
             /\ Contains(out'.events,
                         ChainSynced(Len(nodes[OtherNode(n)].blockchain)))]_vars

\* C8: whenever a node's block at height h is finalised, at least
\* MIN_VERIFICATIONS distinct nodes have published a verification for a block
\* with that very header hash.
C8_FinalisedBlockAttestedByThree ==
    \A n \in DOMAIN nodes :
        \A h \in 0..(Len(nodes[n].blockchain) - 1) :
            LET b == get_block(nodes[n].blockchain, h)
            IN  is_finalised(b) =>
                    Cardinality({p \in DOMAIN attested :
                                    hash(b) \in attested[p]})
                        >= MIN_VERIFICATIONS

\* C10: two chains constructed by Blockchain::new() on different nodes have
\* the same block 0: same header hash on every node.
C10_GenesisIdenticalEverywhere ==
    \A n \in DOMAIN nodes, m \in DOMAIN nodes :
        hash(get_block(nodes[n].blockchain, 0))
            = hash(get_block(nodes[m].blockchain, 0))

\* A state of SpecSync in which both handshakes have run to their end on
\* chains of equal length: every node connected, nothing in flight.
SyncSettled ==
    /\ net.rr = {}
    /\ \A n \in DOMAIN nodes :
         /\ nodes[n].connected_peers_map = DOMAIN nodes \ {n}
         /\ Len(nodes[n].blockchain) = 1
         /\ nodes[n].pending_transactions = << >>

-----------------------------------------------------------------------------
(* Frame and algebraic properties of the chain.                            *)

Hashes(chain) == [i \in 1..Len(chain) |-> hash(chain[i])]

\* Chains that fail is_valid(): a broken prev_hash link, an index gap.
BrokenChains ==
    {[Other4 EXCEPT ![3].prev_hash = ZeroHash], [Other4 EXCEPT ![4].index = 4]}

\* The chains verify_block is tried on: the chain of the current state and,
\* once, beside the freshly constructed chain, the broken ones.
VerifiedChains == {a} \cup (IF last.op = "new" THEN BrokenChains ELSE {})

\* C11: add_verification never changes a block's header hash, so verify_block
\* on any height of any chain, valid or broken, leaves every block's hash and
\* prev_hash, and the outcome of is_valid(), as they were.
C11_VerificationKeepsHashes ==
    \A chain \in VerifiedChains, p \in ChainPeers :
        /\ \A i \in 1..Len(chain) :
             hash(add_verification(chain[i], p).block) = hash(chain[i])
        /\ \A h \in 0..Len(chain) :
             LET r == verify_block(chain, h, p)
             IN  /\ Hashes(r.chain) = Hashes(chain)
                 /\ \A i \in 1..Len(chain) :
                      r.chain[i].prev_hash = chain[i].prev_hash
                 /\ is_valid(r.chain) = is_valid(chain)

C11_Witness ==
    /\ last.op = "verify_block" /\ last.ok
    /\ Len(a) >= 3
    /\ a[2].verifications # << >>
    /\ is_valid(a)

\* C12: after a.sync_from(b), a second a.sync_from(b) with the same b returns
\* false and leaves a as the first call left it.
C12_SyncFromIdempotent ==
    \A other \in OthersFor(a) :
        LET first == sync_from(a, other)
            second == sync_from(first.chain, other)
        IN  /\ ~second.ret
            /\ second.chain = first.chain

C12_Witness ==
    /\ last.op = "sync_from" /\ last.ret
    /\ a = Other4

\* C13: no add_block, verify_block or sync_from call ever shortens the chain.
C13_LengthNeverDecreases == [][Len(a') >= Len(a)]_vars

C13_Witness ==
    /\ last.op = "sync_from" /\ ~last.ret
    /\ Len(a) = 3
    /\ TotalVerifs(a) > 0

-----------------------------------------------------------------------------
(* Sealing, publish failures and node modes.                               *)

\* The steps by which the node of the current state accepts a transaction:
\* a local broadcast whose publish succeeds, and a Transaction gossip message.
AcceptSteps(node, tx) ==
    {broadcast_transaction(node, tx, env) : env \in {e \in SendEnvs : e.publish_tx}}
    \cup {handle_gossip_message(node, GossipTransaction(tx), env) : env \in SealEnvs}

\* The step seals block: one block more, holding txs, on the same chain below,
\* and an empty pool.
Sealed(node, step, txs) ==
    /\ step.node.pending_transactions = << >>
    /\ Len(step.node.blockchain) = Len(node.blockchain) + 1
    /\ SubSeq(step.node.blockchain, 1, Len(node.blockchain)) = node.blockchain
    /\ tip(step.node.blockchain).transactions = txs

\* C14: accepting a transaction (local broadcast or gossip) that brings the
\* pending pool to BLOCK_BATCH_SIZE entries drains the pool and appends, in the
\* same step, exactly one block whose transactions are those entries in
\* arrival order; below BLOCK_BATCH_SIZE the chain is left alone and the
\* transaction stays in the pool.
C14_AutoSealAtBatchSize ==
    \A n \in DOMAIN nodes, tx \in {SampleTxs[1], SampleTxs[2]} :
        LET node == nodes[n]
            pool == Append(node.pending_transactions, tx)
        IN  \A step \in AcceptSteps(node, tx) :
                IF Len(pool) = BLOCK_BATCH_SIZE
                THEN Sealed(node, step, pool)
                ELSE Len(pool) < BLOCK_BATCH_SIZE =>
                        /\ step.node.blockchain = node.blockchain
                        /\ step.node.pending_transactions = pool

C14_Witness ==
    /\ out.op \in {"Gossip", "broadcast_transaction"}
    /\ nodes["n1"].pending_transactions = << >>
    /\ Len(nodes["n1"].blockchain) = 2
    /\ Len(tip(nodes["n1"].blockchain).transactions) = BLOCK_BATCH_SIZE

\* C15: a broadcast_transaction whose publish on the transaction topic fails
\* still pushes the transaction onto the pending pool (sealing a block when
\* that makes BLOCK_BATCH_SIZE entries).
C15_PublishFailureKeepsPush ==
    [][(out'.op = "broadcast_transaction" /\ out'.published = << >>) =>
          LET node == nodes["n1"]
              pool == Append(node.pending_transactions, NodeTx)
          IN  IF Len(pool) = BLOCK_BATCH_SIZE
              THEN Sealed(node, [node |-> nodes'["n1"]], pool)
              ELSE nodes'["n1"].pending_transactions = pool]_vars

\* C16: form_block on a non-empty pending pool appends exactly one block
\* holding the drained transactions and leaves the pool empty, whatever the
\* publish of the block and the publish of the self-verification answer and
\* whether form_block returns Ok or an error.
C16_SealSurvivesPublishFailure ==
    \A n \in DOMAIN nodes :
        LET node == nodes[n]
        IN  node.pending_transactions # << >> =>
                \A env \in SealEnvs :
                    Sealed(node, form_block(node, env),
                           node.pending_transactions)

C16_Witness ==
    /\ out.op = "form_block" /\ ~out.ok /\ out.err = "Gossipsub"
    /\ out.published = << >>
    /\ Len(nodes["n1"].blockchain) = 2
    /\ nodes["n1"].pending_transactions = << >>

\* C17: after a Full node's form_block has sealed a block, the node's own
\* peer identifier is in the verification set of that block, also when the
\* publish on the verify topic failed.
C17_SelfVerificationRecorded ==
    \A n \in DOMAIN nodes :
        (/\ out.node = n /\ out.op = "form_block"
         /\ out.err # "NoPendingTransactions"
         /\ nodes[n].mode = "Full")
        => Contains(tip(nodes[n].blockchain).verifications,
                    nodes[n].local_peer_id)

\* C18: a node in Gossip mode publishes no BlockVerification message and its
\* own peer identifier is in no verification set of its chain.
C18_GossipModeNeverVerifies ==
    \A n \in DOMAIN nodes :
        nodes[n].mode = "Gossip" =>
            /\ out.node = n => ~HasVerification(out.published)
            /\ \A i \in 1..Len(nodes[n].blockchain) :
                   ~Contains(nodes[n].blockchain[i].verifications,
                             nodes[n].local_peer_id)

C18_Witness ==
    /\ nodes["n1"].mode = "Gossip"
    /\ Len(nodes["n1"].blockchain) = 2
    /\ out.op = "Gossip" /\ out.on = "Block"

\* C19: every BlockVerification a node publishes names a height at which its
\* local chain has a block.
C19_VerifiesOnlyHeldBlocks ==
    \A i \in 1..Len(out.published) :
        out.published[i].type = "BlockVerification" =>
            FindFrom(nodes[out.node].blockchain,
                     out.published[i].block_index, 1) # 0

\* The last step sealed a block on node n: form_block ran on a non-empty pool,
\* or an accepted transaction filled the pool.
SealedNow(n) ==
    /\ out.node = n
    /\ \/ out.op = "form_block" /\ out.err # "NoPendingTransactions"
       \/ /\ out.op = "Gossip" /\ out.on = "Transaction"
          /\ nodes[n].pending_transactions = << >>
       \/ /\ out.op = "broadcast_transaction" /\ out.published # << >>
          /\ nodes[n].pending_transactions = << >>

\* C20: a BlockVerification for a height the local chain does not hold leaves
\* the node as it was (chain, pending pool, no queue) and emits no event; a
\* block sealed later carries no verification but the sealer's own.
C20_EarlyVerificationDropped ==
    \A n \in DOMAIN nodes :
        LET node == nodes[n]
        IN  /\ \A h \in 0..(Len(node.blockchain) + 1), p \in Peers :
                  FindFrom(node.blockchain, h, 1) = 0 =>
                      handle_gossip_message(
                          node, GossipBlockVerification(h, p), QuietEnv)
                      = Step(node, TRUE, "", << >>, << >>, << >>, << >>)
            /\ SealedNow(n) =>
                  VerifierSet(tip(node.blockchain)) \subseteq {node.local_peer_id}

C20_Witness ==
    /\ out.op = "Gossip" /\ out.on = "BlockVerification"
    /\ out.events = << >>
    /\ Len(nodes["n1"].blockchain) = 1
    /\ nodes["n1"].pending_transactions # << >>

-----------------------------------------------------------------------------
(* Finalisation events and the sync handshake of one node.                 *)

\* The chain holds a block of height h with MIN_VERIFICATIONS distinct
\* verifiers.
FinalisedAt(chain, h) ==
    LET pos == FindFrom(chain, h, 1)
    IN  /\ pos # 0
        /\ Cardinality(VerifierSet(chain[pos])) >= MIN_VERIFICATIONS

C22_EveryConnectionAsksForTip ==
    \A n \in DOMAIN nodes :
        /\ \A peer \in NodePeers :
              LET step == ConnectionEstablished(nodes[n], peer)
              IN  /\ step.requests =
                        <<[to |-> peer, request |-> [type |-> "ChainTip"]]>>
                  /\ step.events = <<[type |-> "PeerConnected",
                                      peer_id |-> peer]>>
                  /\ peer \in step.node.connected_peers_map
        /\ (out.node = n /\ out.op = "connected") =>
              /\ Len(out.requests) = 1
              /\ out.requests[1].request.type = "ChainTip"
              /\ out.requests[1].to \in nodes[n].connected_peers_map
              /\ out.events = <<[type |-> "PeerConnected",
                                 peer_id |-> out.requests[1].to]>>

C22_Witness ==
    /\ out.op = "connected"
    /\ "p2" \in nodes["n1"].connected_peers_map
    /\ Len(nodes["n1"].blockchain) = 2

\* C23: a ChainTip response makes the node send BlocksFrom with
\* from_index = local tip + 1 exactly when the reported tip_index is greater
\* than the local tip index and the swarm lists a connected peer; otherwise
\* nothing is sent; the response never changes the node's chain.
C23_TipResponseAsksForBlocks ==
    \A n \in DOMAIN nodes :
        LET node == nodes[n]
            local_tip == node.blockchain[Len(node.blockchain)].index
        IN  \A tip_index \in 0..(local_tip + 2),
               peer \in NodePeers \cup {NoPeer} :
                LET step == apply_sync_response(
                                node, ResponseChainTip(tip_index),
                                [QuietEnv EXCEPT !.next_peer = peer])
                IN  /\ step.node = node
                    /\ step.events = << >>
                    /\ IF tip_index > local_tip /\ peer # NoPeer
                       THEN step.requests =
                               <<[to |-> peer,
                                  request |-> [type |-> "BlocksFrom",
                                               from_index |-> local_tip + 1]]>>
                       ELSE step.requests = << >>

C23_Witness ==
    /\ out.op = "Response" /\ out.on = "ChainTip"
    /\ out.requests # << >>
    /\ Len(nodes["n1"].blockchain) = 2

-----------------------------------------------------------------------------
(* Contracts of add_block and verify_block.                                *)

\* C24: a successful add_block(txs) on a chain of length n gives a chain of
\* length n + 1 whose tip has index = old tip index + 1, prev_hash = hash of
\* the old tip, the given transactions, nonce 0 and no verification, and
\* whose first n blocks are the old chain.
C24_AddBlockAppendsLinkedBlock ==
    /\ \A draw \in BlockDraws :
          LET txs == draw[1]
              r == add_block(a, txs, draw[2])
              new == r.chain[Len(r.chain)]
          IN  txs # << >> =>
                /\ r.ok
                /\ Len(r.chain) = Len(a) + 1
                /\ new.index = a[Len(a)].index + 1
                /\ new.prev_hash = hash(a[Len(a)])
                /\ new.transactions = txs
                /\ new.nonce = 0
                /\ new.verifications = << >>
                /\ SubSeq(r.chain, 1, Len(a)) = a
    /\ (last.op = "add_block" /\ last.ok) =>
          /\ Len(a) >= 2
          /\ a[Len(a)].index = a[Len(a) - 1].index + 1
          /\ a[Len(a)].prev_hash = hash(a[Len(a) - 1])
          /\ a[Len(a)].transactions \in TxLists \ {<< >>}
          /\ a[Len(a)].nonce = 0
          /\ a[Len(a)].verifications = << >>

C24_Witness ==
    /\ last.op = "add_block" /\ last.ok
    /\ Len(a) = 3
    /\ Len(a[3].transactions) = 3
    /\ a[2].verifications # << >>

\* C25: add_block with no transactions fails with NoTransactions and leaves
\* the chain as it was; no block above genesis is without transactions.
C25_EmptyBlockRefused ==
    /\ \A now \in Times :
          add_block(a, << >>, now)
              = [ok |-> FALSE, err |-> "NoTransactions", chain |-> a]
    /\ (last.op = "add_block" /\ ~last.ok) => last.err = "NoTransactions"
    /\ \A i \in 1..Len(a) : a[i].index > 0 => a[i].transactions # << >>

C25_Witness ==
    /\ last.op = "add_block" /\ ~last.ok /\ last.err = "NoTransactions"
    /\ Len(a) = 2

\* C26: verify_block(h, p) for a height h that no block of the chain has fails
\* with BlockNotFound(h) and leaves the chain, every verification list
\* included, as it was.
C26_AbsentHeightNotFound ==
    /\ \A h \in 0..(Len(a) + 1), p \in ChainPeers :
          (\A i \in 1..Len(a) : a[i].index # h) =>
              verify_block(a, h, p)
                  = [ok |-> FALSE, err |-> "BlockNotFound", block_index |-> h,
                     ret |-> FALSE, chain |-> a]
    /\ (last.op = "verify_block" /\ ~last.ok) => last.err = "BlockNotFound"

C26_Witness ==
    /\ last.op = "verify_block" /\ ~last.ok
    /\ Len(a) = 2
    /\ a[2].verifications # << >>

-----------------------------------------------------------------------------
(* SpecMerkle: a Merkle tree is built from a transaction list, inclusion   *)
(* proofs are taken from it and verified against a root.                   *)

\* Longest transaction list a tree of SpecMerkle is built from.
MerkleMaxTxs == 5

\* Outcomes of Uuid::new_v4() for the transactions of SpecMerkle.
MerkleUuids == <<"u1", "u2", "u3", "u4", "u5", "u6", "u7", "u8">>

\* Transactions with ids of their own.
DistinctTxs ==
    [i \in 1..MerkleMaxTxs |->
        Transaction_new("PostCreated", "post", MerkleUuids[i], 1)]

\* The lists trees are built from: transactions that all differ, in both
\* orders, and every list over two transactions (the same transaction can be
\* handed in more than once).
MerkleLists ==
    {SubSeq(DistinctTxs, 1, k) : k \in 1..MerkleMaxTxs}
    \cup {[i \in 1..k |-> DistinctTxs[k + 1 - i]] : k \in 1..MerkleMaxTxs}
    \cup UNION {[1..k -> {SampleTxs[1], SampleTxs[2]}] : k \in 1..MerkleMaxTxs}

\* The ids proofs are asked for; the last one belongs to no transaction.
ProofIds == {MerkleUuids[i] : i \in 1..(MerkleMaxTxs + 1)}

InitMerkle ==
    /\ \E transactions \in MerkleLists :
          merkle = [op |-> "new", transactions |-> transactions,
                    tree |-> MerkleTree_new(transactions)]
    /\ mgr = NoManager
    /\ HostIdle
    /\ Idle
    /\ ChainIdle

MerkleProof ==
    /\ \E tx_id \in ProofIds :
          merkle' =
              [op |-> "proof", transactions |-> merkle.transactions,
               tree |-> merkle.tree, tx_id |-> tx_id,
               proof |-> proof(merkle.tree, merkle.transactions, tx_id)]
    /\ UNCHANGED <<mgr, hostVars, chainVars, nodeVars>>

\* The proof is verified against the root of the tree it came from, or
\* against the hash of its leaf.
MerkleVerify ==
    /\ merkle.op = "proof" /\ merkle.proof.ok
    /\ \E expected_root \in {root_hash(merkle.tree), merkle.proof.leaf_hash} :
          merkle' =
              [merkle EXCEPT !.op = "verify"] @@
              [expected_root |-> expected_root,
               verified |-> verify(merkle.proof, expected_root)]
    /\ UNCHANGED <<mgr, hostVars, chainVars, nodeVars>>

NextMerkle == MerkleProof \/ MerkleVerify

SpecMerkle == InitMerkle /\ [][NextMerkle]_vars

\* C27: for every non-empty transaction list and every transaction of it, the
\* proof the tree gives for the transaction's id has one step per level below
\* the root and verifies against the root of the tree.
C27_ProofVerifiesAgainstRoot ==
    (/\ merkle.op \in {"proof", "verify"}
     /\ \E i \in 1..Len(merkle.transactions) :
           merkle.transactions[i].id = merkle.tx_id)
    => /\ merkle.proof.ok
       /\ Len(merkle.proof.path) = Len(merkle.tree.levels) - 1
       /\ (/\ merkle.op = "verify"
           /\ merkle.expected_root = root_hash(merkle.tree))
          => merkle.verified

\* The last of five different transactions, whose hash is paired with itself
\* on the leaf level, is proven and verified.
C27_Witness ==
    /\ merkle.op = "verify" /\ merkle.verified
    /\ merkle.transactions = SubSeq(DistinctTxs, 1, 5)
    /\ merkle.tx_id = merkle.transactions[5].id
    /\ Len(merkle.proof.path) = 3

-----------------------------------------------------------------------------
(* SpecManager: one SyncManager; the application sets its strategy, asks   *)
(* which blocks of a remote chain to apply and records downloads.          *)
(* `mgr.before` is the manager as the latest call found it and             *)
(* `mgr.returned` the estimated size of all blocks blocks_to_sync has      *)
(* returned under a SizeLimit since the strategy was set.                  *)

\* record_download is called while the counter stays within this many bytes.
ManagerMaxBytes == 800

\* Bounds of the time ranges of SpecManager.
ManagerTimes == 0..2

\* 521 bytes hold blocks 1 and 3 of Other4 but not blocks 1 and 2; 600 hold
\* two blocks and not three.
ManagerStrategies ==
    {OnDemand}
    \cup {TimeRange(from, to) : from \in ManagerTimes, to \in ManagerTimes}
    \cup {SizeLimit(max_bytes) : max_bytes \in {0, 521, 600}}

ManagerLocals == {Blockchain_new("u1", 1), Other2, Other4}

\* What remote.blocks() can hold: a whole chain, a chain from block 1 on, no
\* block, and blocks in another order than their indices.
ManagerRemotes ==
    {Other4, blocks_from(Other4, 1), << >>, <<Other4[4], Other4[2], Other4[3]>>}

RECURSIVE EstimatedSize(_, _)
EstimatedSize(blocks, i) ==
    IF i > Len(blocks) THEN 0
    ELSE estimated_block_size(blocks[i]) + EstimatedSize(blocks, i + 1)

InitManager ==
    /\ \E strategy \in ManagerStrategies :
          mgr = [op |-> "new", manager |-> SyncManager_new(strategy),
                 before |-> SyncManager_new(strategy), returned |-> 0,
                 recorded |-> 0,
                 local |-> << >>, remote_blocks |-> << >>,
                 ok |-> TRUE, err |-> "", blocks |-> << >>]
    /\ merkle = NoMerkle
    /\ HostIdle
    /\ Idle
    /\ ChainIdle

ManagerSetStrategy ==
    /\ \E strategy \in ManagerStrategies :
          mgr' = [op |-> "set_strategy",
                  manager |-> set_strategy(mgr.manager, strategy),
                  before |-> mgr.manager, returned |-> 0, recorded |-> 0,
                  local |-> << >>, remote_blocks |-> << >>,
                  ok |-> TRUE, err |-> "", blocks |-> << >>]
    /\ UNCHANGED <<merkle, hostVars, chainVars, nodeVars>>

ManagerBlocksToSync ==
    /\ \E local \in ManagerLocals, remote_blocks \in ManagerRemotes :
          LET r == blocks_to_sync(mgr.manager, local, remote_blocks)
          IN  mgr' = [op |-> "blocks_to_sync", manager |-> r.manager,
                      before |-> mgr.manager,
                      returned |->
                          IF mgr.manager.strategy.type = "SizeLimit"
                          THEN mgr.returned + EstimatedSize(r.blocks, 1)
                          ELSE mgr.returned,
                      recorded |-> mgr.recorded,
                      local |-> local, remote_blocks |-> remote_blocks,
                      ok |-> r.ok, err |-> r.err, blocks |-> r.blocks]
    /\ UNCHANGED <<merkle, hostVars, chainVars, nodeVars>>

ManagerRecordDownload ==
    /\ \E block \in {Other4[2], Other4[3]} :
          /\ record_download(mgr.manager.downloaded_bytes, block)
                <= ManagerMaxBytes
          /\ mgr' = [op |-> "record_download",
                     manager |-> [mgr.manager EXCEPT !.downloaded_bytes =
                                     record_download(@, block)],
                     before |-> mgr.manager, returned |-> mgr.returned,
                     recorded |-> mgr.recorded + estimated_block_size(block),
                     local |-> << >>, remote_blocks |-> << >>,
                     ok |-> TRUE, err |-> "", blocks |-> << >>]
    /\ UNCHANGED <<merkle, hostVars, chainVars, nodeVars>>

NextManager ==
    ManagerSetStrategy \/ ManagerBlocksToSync \/ ManagerRecordDownload

SpecManager == InitManager /\ [][NextManager]_vars

\* The latest call was blocks_to_sync under a strategy of this type.
Synced(type) ==
    mgr.op = "blocks_to_sync" /\ mgr.before.strategy.type = type

\* The remote blocks beyond the local tip, in remote order.
Candidates == SelectSeq(mgr.remote_blocks, LAMBDA b : b.index >= Len(mgr.local))

\* C28: under SizeLimit{max_bytes}, blocks_to_sync returns the longest prefix
\* of the remote blocks beyond the local tip for which the counter so far
\* plus the estimated sizes of the prefix stays within max_bytes (no block
\* when record_download has taken the counter past the cap already), adds
\* those sizes to the counter, and all blocks returned since the strategy was
\* set are together within max_bytes.
C28_SizeLimitLongestPrefix ==
    /\ Synced("SizeLimit") =>
          LET max_bytes == mgr.before.strategy.max_bytes
              k == Len(mgr.blocks)
              Total(n) == mgr.before.downloaded_bytes
                              + EstimatedSize(SubSeq(Candidates, 1, n), 1)
          IN  /\ mgr.ok
              /\ k <= Len(Candidates)
              /\ mgr.blocks = SubSeq(Candidates, 1, k)
              /\ k > 0 => Total(k) <= max_bytes
              /\ k < Len(Candidates) => Total(k + 1) > max_bytes
              /\ mgr.manager.downloaded_bytes = Total(k)
    /\ mgr.op # "none" /\ mgr.manager.strategy.type = "SizeLimit" =>
          mgr.returned <= mgr.manager.strategy.max_bytes

\* The cap stops the selection before a block that would have fitted later.
C28_Witness ==
    /\ Synced("SizeLimit")
    /\ mgr.before.strategy.max_bytes = 521
    /\ mgr.before.downloaded_bytes = 0
    /\ Len(mgr.blocks) = 1
    /\ Len(Candidates) = 3

\* C29: under TimeRange{from, to} with from <= to, blocks_to_sync returns
\* exactly the remote blocks with index >= local.len() and
\* from <= timestamp <= to, in remote order; no strategy returns a block with
\* index < local.len(); OnDemand returns no block.
C29_TimeRangeInclusive ==
    mgr.op = "blocks_to_sync" =>
        LET strategy == mgr.before.strategy
            At(b) == CHOOSE i \in 1..Len(mgr.remote_blocks) :
                         mgr.remote_blocks[i] = b
        IN  /\ \A i \in 1..Len(mgr.blocks) :
                  /\ mgr.blocks[i].index >= Len(mgr.local)
                  /\ Contains(mgr.remote_blocks, mgr.blocks[i])
            /\ strategy.type = "OnDemand" => mgr.ok /\ mgr.blocks = << >>
            /\ (strategy.type = "TimeRange" /\ strategy.from <= strategy.to) =>
                  /\ mgr.ok
                  /\ \A i \in 1..Len(mgr.remote_blocks) :
                        LET b == mgr.remote_blocks[i]
                        IN  Contains(mgr.blocks, b) <=>
                                /\ b.index >= Len(mgr.local)
                                /\ strategy.from <= b.timestamp
                                /\ b.timestamp <= strategy.to
                  /\ \A i \in 1..Len(mgr.blocks), j \in 1..Len(mgr.blocks) :
                        i < j => At(mgr.blocks[i]) < At(mgr.blocks[j])

\* Blocks 1 and 3 carry the timestamp that is both bounds of the range; block
\* 2 between them is older.
C29_Witness ==
    /\ mgr.op = "blocks_to_sync"
    /\ mgr.before.strategy = TimeRange(2, 2)
    /\ mgr.remote_blocks = Other4
    /\ mgr.blocks = <<Other4[2], Other4[4]>>

\* C30: under TimeRange{from, to} with from > to every blocks_to_sync fails
\* with InvalidTimeRange, whatever the local chain and the remote blocks, and
\* leaves the strategy and the counter as they were.
C30_InvalidTimeRangeAlwaysFails ==
    (/\ Synced("TimeRange")
     /\ mgr.before.strategy.from > mgr.before.strategy.to)
    => /\ ~mgr.ok
       /\ mgr.err = "InvalidTimeRange"
       /\ mgr.blocks = << >>
       /\ mgr.manager = mgr.before

\* The call fails although no remote block is beyond the local tip.
C30_Witness ==
    /\ Synced("TimeRange")
    /\ mgr.before.strategy.from > mgr.before.strategy.to
    /\ ~mgr.ok
    /\ mgr.remote_blocks # << >>
    /\ Candidates = << >>
    /\ mgr.before.downloaded_bytes > 0

\* ---------------------------------------------------------------------------
\* C31: downloaded_bytes is the sum of the estimated sizes of the blocks
\* selected by SizeLimit blocks_to_sync calls and of the blocks passed to
\* record_download since the manager was created or set_strategy was last
\* called; set_strategy leaves it at 0 and a blocks_to_sync call under
\* OnDemand or TimeRange leaves it as it was.
C31_CounterIsSumSinceReset ==
    /\ mgr.manager.downloaded_bytes = mgr.returned + mgr.recorded
    /\ mgr.op \in {"new", "set_strategy"} => mgr.manager.downloaded_bytes = 0
    /\ (Synced("OnDemand") \/ Synced("TimeRange")) =>
          mgr.manager.downloaded_bytes = mgr.before.downloaded_bytes
    /\ Synced("SizeLimit") =>
          mgr.manager.downloaded_bytes =
              mgr.before.downloaded_bytes + EstimatedSize(mgr.blocks, 1)
    /\ \A strategy \in ManagerStrategies :
          set_strategy(mgr.manager, strategy).downloaded_bytes = 0

\* A set_strategy that reset a counter fed by both a SizeLimit selection and
\* record_download.
C31_Witness ==
    /\ mgr.op = "set_strategy"
    /\ mgr.before.downloaded_bytes > 0
    /\ mgr.manager.downloaded_bytes = 0

\* A counter holding both selected and recorded bytes.
C31_WitnessMixed ==
    /\ mgr.returned > 0
    /\ mgr.recorded > 0

\* ---------------------------------------------------------------------------
\* Gossiped blocks.

\* The Block messages handled in the current state: blocks of other chains at
\* heights the local chain holds and at heights it does not hold.
BlockMessages == {GossipBlock(b) : b \in {Other2[2], Other4[3], Other4[4]}}

\* The handlers that neither seal nor sync, applied to the node of the current
\* state.
QuietSteps(node) ==
    {handle_gossip_message(node, msg, QuietEnv) :
        msg \in {m \in GossipInputs : m.type # "Transaction"}}
    \cup {handle_request_response(node, [kind |-> "Request", body |-> req],
                                  QuietEnv) : req \in RequestInputs}
    \cup {handle_request_response(
              node, [kind |-> "Response", body |-> resp],
              [QuietEnv EXCEPT !.next_peer = "p2"]) :
            resp \in {r \in ResponseInputs : r.type # "Blocks"}}
    \cup {ConnectionEstablished(node, p) : p \in NodeNeighbours}
    \cup {ConnectionClosed(node, p) : p \in NodeNeighbours}

\* The effects of a Block message apart from its events.
BlockGossipFrame(node, msg, env, step) ==
    LET h == msg.block.index
        self == node.local_peer_id
        sent == node.mode = "Full" /\ env.publish_verify
    IN  /\ Len(step.node.blockchain) = Len(node.blockchain)
        /\ Unverified(step.node.blockchain) = Unverified(node.blockchain)
        /\ step.node.pending_transactions = node.pending_transactions
        /\ step.node.discovered_peers = node.discovered_peers
        /\ step.node.connected_peers_map = node.connected_peers_map
        /\ step.node.downloaded_bytes = node.downloaded_bytes
        /\ step.requests = << >> /\ step.responses = << >>
        /\ step.published =
              IF sent THEN <<GossipBlockVerification(h, self)>> ELSE << >>
        /\ step.node.blockchain =
              IF sent /\ HasBlock(node.blockchain, h)
              THEN verify_block(node.blockchain, h, self).chain
              ELSE node.blockchain
        /\ step.events[1] = BlockReceived(msg.block)

RECURSIVE ChainTxs(_, _)
ChainTxs(chain, i) ==
    IF i > Len(chain) THEN << >>
    ELSE chain[i].transactions \o ChainTxs(chain, i + 1)

\* Every transaction the node holds: those of its blocks, then the pool.
HeldTxs(node) == ChainTxs(node.blockchain, 1) \o node.pending_transactions

\* C38: in every state a node is in between two handlers the pending pool
\* holds fewer than BLOCK_BATCH_SIZE transactions; accepting a transaction
\* adds exactly it to what the node holds (pool and blocks, in arrival
\* order), whether or not the step seals; form_block moves the whole pool
\* into one new block and every other handler leaves pool and blocks'
\* transactions alone, so no transaction that was pushed is dropped.
C38_PoolBelowBatchNothingLost ==
    \A n \in DOMAIN nodes :
        LET node == nodes[n]
        IN  /\ Len(node.pending_transactions) < BLOCK_BATCH_SIZE
            /\ \A tx \in {SampleTxs[1], SampleTxs[2]} :
                 \A step \in AcceptSteps(node, tx) :
                    /\ HeldTxs(step.node) = HeldTxs(node) \o <<tx>>
                    /\ Len(step.node.pending_transactions) < BLOCK_BATCH_SIZE
                    /\ \/ step.node.pending_transactions =
                             Append(node.pending_transactions, tx)
                       \/ Sealed(node, step,
                                 Append(node.pending_transactions, tx))
            /\ \A env \in SealEnvs :
                 LET step == form_block(node, env)
                 IN  /\ HeldTxs(step.node) = HeldTxs(node)
                     /\ step.node.pending_transactions = << >>
                     /\ node.pending_transactions # << >> =>
                            Sealed(node, step, node.pending_transactions)
            /\ \A step \in QuietSteps(node)
                     \cup {handle_gossip_message(node, msg, env) :
                              msg \in BlockMessages, env \in SealEnvs}
                     \cup {handle_request_response(
                              node, [kind |-> "Response", body |-> resp],
                              QuietEnv) : resp \in ResponseInputs} :
                 /\ HeldTxs(step.node) = HeldTxs(node)
                 /\ step.node.pending_transactions = node.pending_transactions

\* A broadcast that filled the pool and sealed it into block 1.
C38_Witness ==
    /\ out.op = "broadcast_transaction"
    /\ nodes["n1"].pending_transactions = << >>
    /\ Len(HeldTxs(nodes["n1"])) = BLOCK_BATCH_SIZE + 1
    /\ Len(tip(nodes["n1"].blockchain).transactions) = BLOCK_BATCH_SIZE

-----------------------------------------------------------------------------
(* Peer discovery and the two peer indices of a node, with the addresses   *)
(* the maps hold. A Multiaddr is the record of a name and its TCP/UDP port *)
(* component, << >> when it has none; an Option is a sequence of at most   *)
(* one element; a HashMap is a function on its keys.                       *)

DiscoveryModes == {"KademliaDht", "Mdns", "Both"}

None == << >>

Some(x) == <<x>>

RangeInclusive(start, end) == [start |-> start, end |-> end]

EmptyMap == [k \in {} |-> << >>]

MapRemove(map, key) == [k \in DOMAIN map \ {key} |-> map[k]]

\* map.entry(key).or_default()
OrDefault(map, key) == IF key \in DOMAIN map THEN map[key] ELSE << >>

MapInsert(map, key, value) ==
    [k \in DOMAIN map \cup {key} |-> IF k = key THEN value ELSE map[k]]

addr_port(addr) == addr.port

filter_addrs(node, addrs) ==
    IF node.discovery_port_range = None THEN addrs
    ELSE SelectSeq(addrs,
             LAMBDA addr :
                 /\ addr_port(addr) # None
                 /\ node.discovery_port_range[1].start <= addr_port(addr)[1]
                 /\ addr_port(addr)[1] <= node.discovery_port_range[1].end)

trigger_discovery(node, port_range) ==
    [node EXCEPT !.discovery_port_range =
                     IF port_range = None THEN None
                     ELSE Some(RangeInclusive(port_range[1][1],
                                              port_range[1][2])),
                 !.discovery_mode = "Both"]

PeerDiscovered(peer_id, addrs) ==
    [type |-> "PeerDiscovered", peer_id |-> peer_id, addrs |-> addrs]

\* for addr in &kept { if !entry.contains(addr) { entry.push(addr) } }
RECURSIVE PushNew(_, _, _)
PushNew(entry, kept, i) ==
    IF i > Len(kept) THEN entry
    ELSE PushNew(IF Contains(entry, kept[i]) THEN entry
                 ELSE Append(entry, kept[i]),
                 kept, i + 1)

\* Node::new with the discovery settings of the configuration; the two peer
\* indices are maps from peer to addresses.
Node_with_discovery(config) ==
    [discovered_peers |-> EmptyMap,
     connected_peers_map |-> EmptyMap,
     discovery_mode |-> config.discovery_mode,
     discovery_port_range |-> config.discovery_port_range]
    @@ Node_new("n1", config.mode, "u1", 1)

\* The ConnectionEstablished arm with the remote address of the endpoint.
SwarmConnectionEstablished(node, peer_id, addr) ==
    Step([node EXCEPT
             !.discovered_peers = MapRemove(@, peer_id),
             !.connected_peers_map =
                 MapInsert(@, peer_id, Append(OrDefault(@, peer_id), addr))],
         TRUE, "", <<PeerConnected(peer_id)>>, << >>,
         <<request_chain_tip(peer_id)>>, << >>)

SwarmConnectionClosed(node, peer_id) ==
    Step([node EXCEPT !.connected_peers_map = MapRemove(@, peer_id)],
         TRUE, "", <<PeerDisconnected(peer_id)>>, << >>, << >>, << >>)

\* by_peer of the mDNS arm: the addresses of each peer, in list order.
ByPeer(peers) ==
    [p \in {peers[i][1] : i \in 1..Len(peers)} |->
        LET own == SelectSeq(peers, LAMBDA e : e[1] = p)
        IN  [i \in 1..Len(own) |-> own[i][2]]]

\* The loop of the mDNS arm over by_peer; `order` is the order in which the
\* HashMap yields its keys.
RECURSIVE MdnsLoop(_, _, _, _)
MdnsLoop(node, by_peer, order, i) ==
    IF i > Len(order) THEN [node |-> node, events |-> << >>]
    ELSE
        LET peer_id == order[i]
            addrs == by_peer[peer_id]
            filtered == filter_addrs(node, addrs)
            kept == IF filtered = << >> THEN addrs ELSE filtered
            skip == \/ peer_id \in DOMAIN node.connected_peers_map
                    \/ filtered = << >> /\ node.discovery_port_range # None
            next == IF skip THEN node
                    ELSE [node EXCEPT !.discovered_peers =
                             MapInsert(@, peer_id,
                                       PushNew(OrDefault(@, peer_id), kept, 1))]
            rest == MdnsLoop(next, by_peer, order, i + 1)
        IN  [node |-> rest.node,
             events |-> (IF skip THEN << >>
                         ELSE <<PeerDiscovered(peer_id, kept)>>)
                        \o rest.events]

\* The mdns::Event::Discovered arm.
MdnsDiscovered(node, peers, order) ==
    IF node.discovery_mode = "KademliaDht"
    THEN Step(node, TRUE, "", << >>, << >>, << >>, << >>)
    ELSE LET r == MdnsLoop(node, ByPeer(peers), order, 1)
         IN  Step(r.node, TRUE, "", r.events, << >>, << >>, << >>)

\* A variant of the kad::Event::RoutingUpdated arm without the check of the
\* connected peers.
KademliaRoutingUpdated_unchecked(node, peer, addresses) ==
    LET filtered == filter_addrs(node, addresses)
        kept == IF filtered = << >> THEN addresses ELSE filtered
    IN  IF \/ node.discovery_mode = "Mdns"
           \/ filtered = << >> /\ node.discovery_port_range # None
        THEN Step(node, TRUE, "", << >>, << >>, << >>, << >>)
        ELSE Step([node EXCEPT !.discovered_peers =
                      MapInsert(@, peer, PushNew(OrDefault(@, peer), kept, 1))],
                  TRUE, "", <<PeerDiscovered(peer, kept)>>, << >>, << >>,
                  << >>)

\* The kad::Event::RoutingUpdated arm.
KademliaRoutingUpdated(node, peer, addresses) ==
    LET filtered == filter_addrs(node, addresses)
        kept == IF filtered = << >> THEN addresses ELSE filtered
    IN  IF \/ node.discovery_mode = "Mdns"
           \/ peer \in DOMAIN node.connected_peers_map
           \/ filtered = << >> /\ node.discovery_port_range # None
        THEN Step(node, TRUE, "", << >>, << >>, << >>, << >>)
        ELSE Step([node EXCEPT !.discovered_peers =
                      MapInsert(@, peer, PushNew(OrDefault(@, peer), kept, 1))],
                  TRUE, "", <<PeerDiscovered(peer, kept)>>, << >>, << >>,
                  << >>)

-----------------------------------------------------------------------------
(* SpecPeers: one node, built from a configuration, whose host runs it     *)
(* (Node::run under the controller's Discover commands, or                 *)
(* run_with_periodic_discovery with its ticker) while the swarm reports    *)
(* connections, discoveries and ChainTip responses. `live` is the number   *)
(* of connections the swarm holds to each peer.                            *)

\* Connections the swarm of SpecPeers holds to one peer at a time.
MaxConnections == 2

PeeringPeers == {"p2", "p3"}

LanAddr == [name |-> "lan", port |-> Some(4001)]

WanAddr == [name |-> "wan", port |-> Some(6001)]

MemAddr == [name |-> "memory", port |-> None]

\* The port range of the configurations and Discover commands of SpecPeers.
LanPorts == <<4000, 4999>>

PeerConfigs ==
    {[mode |-> "Full", discovery_mode |-> dm, discovery_port_range |-> pr] :
        dm \in DiscoveryModes,
        pr \in {None, Some(RangeInclusive(LanPorts[1], LanPorts[2]))}}

MdnsInputs ==
    {<< <<"p2", LanAddr>> >>, << <<"p2", WanAddr>> >>,
     << <<"p2", WanAddr>>, <<"p2", LanAddr>> >>,
     << <<"p2", LanAddr>>, <<"p3", WanAddr>> >>,
     << <<"p3", MemAddr>> >>}

KademliaInputs == {<<LanAddr>>, <<WanAddr>>, <<WanAddr, LanAddr>>}

\* The orders in which a HashMap can yield the keys in S.
Orders(S) ==
    {o \in [1..Cardinality(S) -> S] :
        \A i, j \in 1..Cardinality(S) : o[i] = o[j] => i = j}

\* The peers swarm.connected_peers() yields.
SwarmConnected == {p \in PeeringPeers : peering.live[p] > 0}

Peering(op, peer, step, live) ==
    [op |-> op, peer |-> peer, node |-> step.node, live |-> live,
     config |-> peering.config, events |-> step.events,
     requests |-> step.requests]

InitPeers ==
    /\ \E config \in PeerConfigs :
          peering = [op |-> "new", peer |-> NoPeer,
                     node |-> Node_with_discovery(config),
                     live |-> [p \in PeeringPeers |-> 0],
                     config |-> config, events |-> << >>, requests |-> << >>]
    /\ host = NoHost
    /\ merkle = NoMerkle /\ mgr = NoManager
    /\ Idle
    /\ ChainIdle

PeersConnected ==
    /\ \E peer \in PeeringPeers, addr \in {WanAddr} :
          /\ peering.live[peer] < MaxConnections
          /\ peering' = Peering("ConnectionEstablished", peer,
                                SwarmConnectionEstablished(peering.node, peer,
                                                           addr),
                                [peering.live EXCEPT ![peer] = @ + 1])
    /\ UNCHANGED <<host, merkle, mgr, chainVars, nodeVars>>

PeersClosed ==
    /\ \E peer \in SwarmConnected :
          peering' = Peering("ConnectionClosed", peer,
                             SwarmConnectionClosed(peering.node, peer),
                             [peering.live EXCEPT ![peer] = @ - 1])
    /\ UNCHANGED <<host, merkle, mgr, chainVars, nodeVars>>

PeersMdns ==
    /\ \E peers \in MdnsInputs :
         \E order \in Orders(DOMAIN ByPeer(peers)) :
            peering' = Peering("Mdns", peers[1][1],
                               MdnsDiscovered(peering.node, peers, order),
                               peering.live)
    /\ UNCHANGED <<host, merkle, mgr, chainVars, nodeVars>>

PeersKademlia ==
    /\ \E peer \in PeeringPeers, addresses \in KademliaInputs :
          peering' = Peering("Kademlia", peer,
                             KademliaRoutingUpdated(peering.node, peer,
                                                    addresses),
                             peering.live)
    /\ UNCHANGED <<host, merkle, mgr, chainVars, nodeVars>>

\* The ticker of run_with_periodic_discovery, and its call on entry.
PeersTick ==
    /\ peering' = Peering("tick", NoPeer,
                          Step(trigger_discovery(peering.node, None), TRUE, "",
                               << >>, << >>, << >>, << >>),
                          peering.live)
    /\ UNCHANGED <<host, merkle, mgr, chainVars, nodeVars>>

\* NodeCommand::Discover in run_node.
PeersDiscover ==
    /\ \E port_range \in {None, Some(LanPorts)} :
          peering' = Peering("Discover", NoPeer,
                             Step(trigger_discovery(peering.node, port_range),
                                  TRUE, "", << >>, << >>, << >>, << >>),
                             peering.live)
    /\ UNCHANGED <<host, merkle, mgr, chainVars, nodeVars>>

\* A ChainTip response of a connected peer; the swarm lists its connected
\* peers in any order.
PeersTipResponse ==
    /\ \E responder \in SwarmConnected, first \in SwarmConnected,
          tip_index \in 0..1 :
          peering' = Peering("ChainTip", responder,
                             handle_request_response(
                                 peering.node,
                                 [kind |-> "Response",
                                  body |-> ResponseChainTip(tip_index),
                                  peer |-> responder],
                                 [QuietEnv EXCEPT !.next_peer = first]),
                             peering.live)
    /\ UNCHANGED <<host, merkle, mgr, chainVars, nodeVars>>

NextPeers ==
    \/ PeersConnected \/ PeersClosed \/ PeersMdns \/ PeersKademlia
    \/ PeersTick \/ PeersDiscover \/ PeersTipResponse

SpecPeers == InitPeers /\ [][NextPeers]_vars

\* ---------------------------------------------------------------------------
\* The addresses a map holds, and those the PeerDiscovered events report.
StoredAddrs(map) ==
    UNION {{map[p][i] : i \in 1..Len(map[p])} : p \in DOMAIN map}

ReportedAddrs(events) ==
    UNION {{events[k].addrs[i] : i \in 1..Len(events[k].addrs)} :
              k \in {k \in 1..Len(events) : events[k].type = "PeerDiscovered"}}

InPorts(range, addr) ==
    /\ addr_port(addr) # None
    /\ range.start <= addr_port(addr)[1]
    /\ addr_port(addr)[1] <= range.end

\* C32: a peer is in the connected index exactly when the swarm holds at
\* least one connection to it.
C32_ConnectedIffLive ==
    \A p \in PeeringPeers :
        p \in DOMAIN peering.node.connected_peers_map <=> peering.live[p] > 0

\* C33: when the configuration gives a port range, every address stored in
\* discovered or reported by a PeerDiscovered event has a port inside it.
C33_ConfiguredPortRangeRespected ==
    peering.config.discovery_port_range # None =>
        \A addr \in StoredAddrs(peering.node.discovered_peers)
                    \cup ReportedAddrs(peering.events) :
            InPorts(peering.config.discovery_port_range[1], addr)

\* C34: a node configured KademliaDht does not act on an mDNS event and a
\* node configured Mdns does not act on a Kademlia routing update.
C34_ConfiguredModeRespected ==
    /\ peering.op = "Mdns" /\ peering.config.discovery_mode = "KademliaDht"
          => peering.events = << >>
    /\ peering.op = "Kademlia" /\ peering.config.discovery_mode = "Mdns"
          => peering.events = << >>

\* C37: the BlocksFrom request that answers a ChainTip response goes to the
\* peer that sent the response.
C37_BlocksRequestedFromResponder ==
    peering.op = "ChainTip" =>
        \A i \in 1..Len(peering.requests) :
            peering.requests[i].to = peering.peer

\* C39: the discovered and the connected index share no peer; an mDNS or
\* Kademlia event for a peer of the connected index changes nothing and
\* reports nothing; a new connection takes the peer out of discovered and
\* puts it into connected; a closed connection takes it out of connected
\* and leaves discovered as it was.
C39_IndicesDisjoint ==
    LET node == peering.node
        connected == DOMAIN node.connected_peers_map
    IN  /\ DOMAIN node.discovered_peers \cap connected = {}
        /\ \A peer \in connected, addresses \in KademliaInputs :
              LET k == KademliaRoutingUpdated(node, peer, addresses)
                  m == MdnsDiscovered(
                           node, [i \in 1..Len(addresses) |->
                                     <<peer, addresses[i]>>], <<peer>>)
              IN  /\ k.node = node /\ k.events = << >>
                  /\ m.node = node /\ m.events = << >>
        /\ \A peer \in PeeringPeers :
              LET e == SwarmConnectionEstablished(node, peer, LanAddr)
                  c == SwarmConnectionClosed(node, peer)
              IN  /\ peer \notin DOMAIN e.node.discovered_peers
                  /\ peer \in DOMAIN e.node.connected_peers_map
                  /\ peer \notin DOMAIN c.node.connected_peers_map
                  /\ c.node.discovered_peers = node.discovered_peers

\* A Kademlia update for the connected peer p2 was ignored while p3 waits in
\* discovered.
C39_Witness ==
    /\ peering.op = "Kademlia" /\ peering.peer = "p2"
    /\ peering.events = << >>
    /\ peering.node.discovery_mode = "Both"
    /\ DOMAIN peering.node.connected_peers_map = {"p2"}
    /\ DOMAIN peering.node.discovered_peers = {"p3"}

\* A peer that was discovered, connected and disconnected is in neither index.
C39_WitnessClosed ==
    /\ peering.op = "ConnectionClosed" /\ peering.peer = "p2"
    /\ "p2" \notin DOMAIN peering.node.discovered_peers
    /\ "p2" \notin DOMAIN peering.node.connected_peers_map
    /\ peering.live["p2"] = 0

-----------------------------------------------------------------------------
(* SpecHost: the tasks that run a node. Under "run_node" the controller    *)
(* task of sp-tui (run_controller) takes ControlCommands and spawns,       *)
(* commands and aborts node tasks (run_node), each of which selects over   *)
(* its command channel, the node's events and Node::run. Under             *)
(* "run_with_periodic_discovery" one task selects over the swarm and the   *)
(* discovery ticker. Tasks run on the worker threads of the runtime, so    *)
(* steps of different tasks interleave. A task is `running` from the       *)
(* moment the runtime polls it until it suspends; handle.abort() drops a   *)
(* suspended task at once and a running one when it next suspends.         *)
(* `event_rx` is what the channel to the TUI has carried of NodeStarted,   *)
(* NodeStopped and Error, in order; `forwarded` counts its NodeEvents.     *)

\* ControlCommands the TUI sends in SpecHost.
MaxCommands == 3

\* Swarm events the node tasks of SpecHost take, over all tasks.
MaxSwarmEvents == 1

Runners == {"run_node", "run_with_periodic_discovery"}

ControlCommands ==
    {"Start", "Stop", "Restart", "Connect", "Disconnect", "Discover"}

\* The NodeCommand run_controller forwards for a ControlCommand.
NodeCommand(cmd) == IF cmd = "Connect" THEN "Dial" ELSE cmd

Instances == 1..MaxCommands

NoInstance == 0

NodeStarted(i) == [type |-> "NodeStarted", inst |-> i, by |-> "run_node"]

NodeStopped(i, by) == [type |-> "NodeStopped", inst |-> i, by |-> by]

ControlError(i) == [type |-> "Error", inst |-> i, by |-> "run_node"]

\* A task that was never spawned.
NoTask ==
    [pc |-> "unspawned", running |-> FALSE, aborted |-> FALSE,
     cmd_rx |-> << >>, taken |-> 0, handled |-> 0, node_events |-> 0]

\* tokio::spawn(run_node(..)): the task waits in Node::new and the sleep.
SpawnedTask == [NoTask EXCEPT !.pc = "starting"]

\* A variant in which handle_swarm_event can be pending in the middle.
AtSelect_or_in_handler(pc) == pc \in {"select", "mutating", "emitting"}

\* The one place where the loop of a node task can be pending: the select!
\* (under run_with_periodic_discovery) or the select! of run_node, whose
\* Node::run future waits in select_next_some with no swarm event in hand.
\* handle_swarm_event and the handlers it awaits hold no await that can be
\* pending.
AtSelect(pc) == pc = "select"

HostStep(op, inst, during, h) ==
    [h EXCEPT !.op = op, !.inst = inst, !.during = during]

\* The runtime polls task i, or is polling it.
Polled(i) == host.tasks[i].running \/ ~host.tasks[i].aborted

InitHost ==
    /\ \E runner \in Runners :
          host = [op |-> "new", inst |-> NoInstance, during |-> "",
                  runner |-> runner, issued |-> 0, cmd_rx |-> << >>,
                  ctl_pc |-> "recv", ctl_cmd |-> "",
                  node_cmd_tx |-> NoInstance, node_handle |-> NoInstance,
                  spawned |-> IF runner = "run_node" THEN 0 ELSE 1,
                  tasks |-> [i \in Instances |->
                                IF runner = "run_node" \/ i > 1 THEN NoTask
                                ELSE [NoTask EXCEPT !.pc = "select"]],
                  ticks |-> 0, taken |-> 0, forwarded |-> 0,
                  event_rx |-> << >>]
    /\ peering = NoPeering
    /\ merkle = NoMerkle /\ mgr = NoManager
    /\ Idle
    /\ ChainIdle

\* The TUI sends a ControlCommand.
TuiSend ==
    /\ host.runner = "run_node"
    /\ host.issued < MaxCommands
    /\ \E cmd \in ControlCommands :
          host' = HostStep("send", NoInstance, "",
                           [host EXCEPT !.issued = @ + 1,
                                        !.cmd_rx = Append(@, cmd)])
    /\ UNCHANGED <<peering, merkle, mgr, chainVars, nodeVars>>

\* run_controller takes a command: it forwards Connect, Disconnect and
\* Discover to the node task whose channel it holds; for Start, Restart and
\* Stop it takes the channel and sends Stop into it.
CtlRecv ==
    /\ host.ctl_pc = "recv"
    /\ host.cmd_rx # << >>
    /\ LET cmd == Head(host.cmd_rx)
           i == host.node_cmd_tx
           sent == IF i = NoInstance THEN host.tasks
                   ELSE [host.tasks EXCEPT ![i].cmd_rx =
                            Append(@, IF cmd \in {"Start", "Restart"}
                                      THEN "Stop" ELSE NodeCommand(cmd))]
       IN  host' = HostStep(
               "recv", i, "",
               [host EXCEPT
                   !.cmd_rx = Tail(@),
                   !.tasks = sent,
                   !.node_cmd_tx =
                       IF cmd \in {"Start", "Restart", "Stop"}
                       THEN NoInstance ELSE @,
                   !.ctl_pc =
                       IF cmd \in {"Start", "Restart", "Stop"}
                       THEN "abort" ELSE "recv",
                   !.ctl_cmd = cmd])
    /\ UNCHANGED <<peering, merkle, mgr, chainVars, nodeVars>>

\* run_controller goes on: it aborts the task whose handle it holds and
\* sends NodeStopped, and for Start and Restart spawns the next node task.
CtlAbort ==
    /\ host.ctl_pc = "abort"
    /\ LET i == host.node_handle
           stopped == IF i = NoInstance THEN host.tasks
                      ELSE [host.tasks EXCEPT ![i].aborted = TRUE]
           events == IF i = NoInstance THEN host.event_rx
                     ELSE Append(host.event_rx,
                                 NodeStopped(i, "run_controller"))
           new == host.spawned + 1
       IN  host' = HostStep(
               "abort", i, "",
               IF host.ctl_cmd = "Stop"
               THEN [host EXCEPT !.tasks = stopped, !.event_rx = events,
                                 !.node_handle = NoInstance,
                                 !.ctl_pc = "recv"]
               ELSE [host EXCEPT
                        !.tasks = [stopped EXCEPT ![new] = SpawnedTask],
                        !.event_rx = events,
                        !.node_cmd_tx = new, !.node_handle = new,
                        !.spawned = new, !.ctl_pc = "recv"])
    /\ UNCHANGED <<peering, merkle, mgr, chainVars, nodeVars>>

\* Every branch of the select! of a running task is pending: the task
\* suspends.
TaskSuspend ==
    /\ \E i \in Instances :
          /\ host.tasks[i].running
          /\ AtSelect(host.tasks[i].pc)
          /\ host' = HostStep("suspend", i, host.tasks[i].pc,
                              [host EXCEPT !.tasks[i].running = FALSE])
    /\ UNCHANGED <<peering, merkle, mgr, chainVars, nodeVars>>

\* The runtime drops an aborted task where it is suspended.
TaskCancelled ==
    /\ \E i \in Instances :
          /\ host.tasks[i].aborted /\ ~host.tasks[i].running
          /\ host.tasks[i].pc = "starting" \/ AtSelect(host.tasks[i].pc)
          /\ host' = HostStep("cancelled", i, host.tasks[i].pc,
                              [host EXCEPT !.tasks[i].pc = "cancelled",
                                           !.tasks[i].aborted = FALSE])
    /\ UNCHANGED <<peering, merkle, mgr, chainVars, nodeVars>>

\* run_node: Node::new succeeded and the sleep is over.
TaskStarted ==
    /\ \E i \in Instances :
          /\ Polled(i) /\ host.tasks[i].pc = "starting"
          /\ host' = HostStep("started", i, "starting",
                              [host EXCEPT
                                  !.tasks[i].pc = "select",
                                  !.tasks[i].running = TRUE,
                                  !.event_rx = Append(@, NodeStarted(i))])
    /\ UNCHANGED <<peering, merkle, mgr, chainVars, nodeVars>>

\* run_node: Node::new failed.
TaskFailed ==
    /\ \E i \in Instances :
          /\ Polled(i) /\ host.tasks[i].pc = "starting"
          /\ host' = HostStep("failed", i, "starting",
                              [host EXCEPT
                                  !.tasks[i].pc = "finished",
                                  !.tasks[i].running = FALSE,
                                  !.event_rx = Append(@, ControlError(i))])
    /\ UNCHANGED <<peering, merkle, mgr, chainVars, nodeVars>>

\* The cmd_rx.recv() branch of run_node.
TaskCommand ==
    /\ \E i \in Instances :
          LET task == host.tasks[i]
              ctrl == Head(task.cmd_rx)
          IN  /\ Polled(i) /\ AtSelect(task.pc) /\ task.cmd_rx # << >>
              /\ host' = HostStep(
                     ctrl, i, task.pc,
                     IF ctrl = "Stop"
                     THEN [host EXCEPT
                              !.tasks[i].cmd_rx = Tail(@),
                              !.tasks[i].pc = "finished",
                              !.tasks[i].running = FALSE,
                              !.event_rx = Append(@, NodeStopped(i,
                                                                 "run_node"))]
                     ELSE [host EXCEPT !.tasks[i].cmd_rx = Tail(@),
                                       !.tasks[i].running = TRUE,
                                       !.tasks[i].pc = "select"])
    /\ UNCHANGED <<peering, merkle, mgr, chainVars, nodeVars>>

\* The node_events.recv() branch of run_node.
TaskForward ==
    /\ \E i \in Instances :
          LET task == host.tasks[i]
          IN  /\ host.runner = "run_node"
              /\ Polled(i) /\ AtSelect(task.pc) /\ task.node_events > 0
              /\ host' = HostStep(
                     "forward", i, task.pc,
                     [host EXCEPT
                         !.tasks[i].node_events = @ - 1,
                         !.tasks[i].running = TRUE,
                         !.tasks[i].pc = "select",
                         !.forwarded = @ + 1])
    /\ UNCHANGED <<peering, merkle, mgr, chainVars, nodeVars>>

\* The ticker branch of run_with_periodic_discovery.
TaskTick ==
    /\ \E i \in Instances :
          LET task == host.tasks[i]
          IN  /\ host.runner = "run_with_periodic_discovery"
              /\ host.ticks < MaxCommands
              /\ Polled(i) /\ AtSelect(task.pc)
              /\ host' = HostStep("tick", i, task.pc,
                                  [host EXCEPT !.ticks = @ + 1,
                                               !.tasks[i].running = TRUE,
                                               !.tasks[i].pc = "select"])
    /\ UNCHANGED <<peering, merkle, mgr, chainVars, nodeVars>>

\* Node::run: select_next_some yields a swarm event.
TaskTakeEvent ==
    /\ \E i \in Instances :
          LET task == host.tasks[i]
          IN  /\ Polled(i) /\ task.pc = "select"
              /\ host.taken < MaxSwarmEvents
              /\ host' = HostStep("take", i, task.pc,
                                  [host EXCEPT !.taken = @ + 1,
                                               !.tasks[i].taken = @ + 1,
                                               !.tasks[i].running = TRUE,
                                               !.tasks[i].pc = "mutating"])
    /\ UNCHANGED <<peering, merkle, mgr, chainVars, nodeVars>>

\* handle_swarm_event changes chain, pool and peer indices, then sends its
\* events and comes back to select_next_some.
TaskHandle ==
    /\ \E i \in Instances :
          LET task == host.tasks[i]
          IN  /\ task.running /\ task.pc \in {"mutating", "emitting"}
              /\ host' = HostStep(
                     "handle", i, task.pc,
                     IF task.pc = "mutating"
                     THEN [host EXCEPT !.tasks[i].pc = "emitting"]
                     ELSE [host EXCEPT !.tasks[i].pc = "select",
                                       !.tasks[i].handled = @ + 1,
                                       !.tasks[i].node_events = @ + 1])
    /\ UNCHANGED <<peering, merkle, mgr, chainVars, nodeVars>>

NextHost ==
    \/ TuiSend \/ CtlRecv \/ CtlAbort \/ TaskSuspend \/ TaskCancelled
    \/ TaskStarted \/ TaskFailed \/ TaskCommand \/ TaskForward \/ TaskTick
    \/ TaskTakeEvent \/ TaskHandle

SpecHost == InitHost /\ [][NextHost]_vars

\* ---------------------------------------------------------------------------
\* C35: while a node task has a swarm event in hand (taken from the swarm,
\* its handler not yet back at select_next_some) this task does nothing but
\* go on with the handler: it takes no command, no tick and no node event,
\* it does not suspend and it is not dropped; so at every place where the
\* task waits or has ended, every event it took has been handled to the
\* end.
C35_SwarmEventHandledAtomically ==
    /\ host.op \notin {"take", "handle"} =>
          host.during \notin {"mutating", "emitting"}
    /\ \A i \in Instances :
          LET task == host.tasks[i]
          IN  /\ task.pc \in {"mutating", "emitting"} =>
                    task.running /\ task.taken = task.handled + 1
              /\ task.pc \notin {"mutating", "emitting"} =>
                    task.taken = task.handled

\* The controller aborted a node task in the middle of a handler.
C35_Witness ==
    \E i \in Instances :
        /\ host.tasks[i].aborted
        /\ host.tasks[i].pc = "emitting"
        /\ host.tasks[i].cmd_rx # << >>

\* An aborted task was dropped after its handler had run to the end.
C35_WitnessDropped ==
    /\ host.op = "cancelled"
    /\ host.tasks[host.inst].handled > 0
    /\ host.tasks[host.inst].node_events > 0

\* C40: every node task the controller stopped (Stop, or Start and Restart
\* while it ran) has exactly one NodeStopped in the channel, no node task
\* has more than one, and the NodeStopped of a task precedes the
\* NodeStarted of every task spawned after it.
C40_ExactlyOneNodeStopped ==
    \A i \in Instances :
        LET stops == {k \in 1..Len(host.event_rx) :
                         /\ host.event_rx[k].type = "NodeStopped"
                         /\ host.event_rx[k].inst = i}
            later == {k \in 1..Len(host.event_rx) :
                         /\ host.event_rx[k].type = "NodeStarted"
                         /\ host.event_rx[k].inst > i}
        IN  /\ Cardinality(stops) <= 1
            /\ (host.runner = "run_node" /\ i <= host.spawned
                   /\ host.node_handle # i)
                  => Cardinality(stops) = 1
            /\ \A k \in stops, l \in later : k < l

=============================================================================
